---- MODULE Spec2Model ----
(***************************************************************************)
(* conda_curation: the PackageRelations engine (packagerelations.rs), the  *)
(* sorted ingestion (rawrepodata.rs) and the per-architecture driver       *)
(* (main.rs).  Strings are TLA+ strings; Len, SubSeq and \o act on them    *)
(* as on Rust's &str (all text of the model is ASCII, so bytes = chars).   *)
(* Option values are sequences: None is <<>>, Some(x) is <<x>>.            *)
(***************************************************************************)
EXTENDS Naturals, Integers, Sequences, FiniteSets, TLC

(***************************************************************************)
(* Text primitives of the Rust standard library that the code relies on.   *)
(***************************************************************************)

\* One byte of a string.
CharAt(s, i) == SubSeq(s, i, i)

\* The characters that occur in the model's text, in ASCII order; the rank
\* of a character in it orders characters as their byte values do.
Alphabet == " *,-.0123456789<=>_abcdefghijklmnopqrstuvwxyz"

ByteRank(c) == CHOOSE i \in 1..Len(Alphabet) : CharAt(Alphabet, i) = c

IsDigit(c) == c \in {"0", "1", "2", "3", "4", "5", "6", "7", "8", "9"}
IsLower(c) == ByteRank(c) >= ByteRank("a")
IsAlnum(c) == IsDigit(c) \/ IsLower(c)
IsWhitespace(c) == c = " "

\* Ord::cmp on integers: -1, 0 or 1.
CmpInt(x, y) == IF x < y THEN -1 ELSE IF x > y THEN 1 ELSE 0

\* Ordering::then: the first comparison unless it is Equal.
ThenCmp(first, second) == IF first # 0 THEN first ELSE second

\* str::cmp: bytewise lexicographic order.
RECURSIVE StrCmpFrom(_, _, _)
StrCmpFrom(a, b, i) ==
    IF i > Len(a) \/ i > Len(b) THEN CmpInt(Len(a), Len(b))
    ELSE IF CharAt(a, i) = CharAt(b, i) THEN StrCmpFrom(a, b, i + 1)
    ELSE CmpInt(ByteRank(CharAt(a, i)), ByteRank(CharAt(b, i)))

StrCmp(a, b) == StrCmpFrom(a, b, 1)

\* str::ends_with and str::starts_with.
EndsWith(s, suffix) ==
    /\ Len(suffix) <= Len(s)
    /\ SubSeq(s, Len(s) - Len(suffix) + 1, Len(s)) = suffix

StartsWith(s, prefix) ==
    /\ Len(prefix) <= Len(s)
    /\ SubSeq(s, 1, Len(prefix)) = prefix

\* u64::to_string: the decimal digits of n.
DigitChar(d) == CharAt("0123456789", d + 1)

RECURSIVE to_string(_)
to_string(n) == IF n < 10 THEN DigitChar(n)
                ELSE to_string(n \div 10) \o DigitChar(n % 10)

\* str::split_whitespace().next(): the first maximal run of non-whitespace.
RECURSIVE SkipWhitespace(_, _)
SkipWhitespace(s, i) ==
    IF i <= Len(s) /\ IsWhitespace(CharAt(s, i)) THEN SkipWhitespace(s, i + 1) ELSE i

RECURSIVE TokenEnd(_, _)
TokenEnd(s, i) ==
    IF i <= Len(s) /\ ~IsWhitespace(CharAt(s, i)) THEN TokenEnd(s, i + 1) ELSE i

TokenFrom(s, begin) == SubSeq(s, begin, TokenEnd(s, begin) - 1)

FirstToken(s) == TokenFrom(s, SkipWhitespace(s, 1))

\* The least element of a non-empty set of numbers.
Least(S) == CHOOSE k \in S : \A m \in S : k <= m

(***************************************************************************)
(* rattler_conda_types as the code uses it: Version (a sequence of         *)
(* components, ordered component-wise), NamelessMatchSpec (from_str and    *)
(* matches) and PackageRecord.                                             *)
(***************************************************************************)

Num(n) == [kind |-> "Numeral", num |-> n, iden |-> ""]
Iden(s) == [kind |-> "Iden", num |-> 0, iden |-> s]
Dev == [kind |-> "Dev", num |-> 0, iden |-> ""]

\* Component::is_dev and Component::as_string.
is_dev(component) == component.kind = "Dev"
as_string(component) == IF component.kind = "Iden" THEN <<component.iden>> ELSE <<>>

\* Component order: Dev < Iden < Numeral.
KindRank(component) ==
    CASE component.kind = "Dev" -> 0
      [] component.kind = "Iden" -> 1
      [] component.kind = "Numeral" -> 2

ComponentCmp(a, b) ==
    IF a.kind # b.kind THEN CmpInt(KindRank(a), KindRank(b))
    ELSE IF a.kind = "Numeral" THEN CmpInt(a.num, b.num)
    ELSE IF a.kind = "Iden" THEN StrCmp(a.iden, b.iden)
    ELSE 0

\* Version::cmp: component-wise, the shorter version padded with Numeral(0).
Padded(v, i) == IF i <= Len(v) THEN v[i] ELSE Num(0)

RECURSIVE VersionCmpFrom(_, _, _)
VersionCmpFrom(a, b, i) ==
    IF i > Len(a) /\ i > Len(b) THEN 0
    ELSE ThenCmp(ComponentCmp(Padded(a, i), Padded(b, i)),
                 VersionCmpFrom(a, b, i + 1))

VersionCmp(a, b) == VersionCmpFrom(a, b, 1)

\* Version::starts_with, the meaning of a "3.10.*" constraint.
VersionStartsWith(v, prefix) ==
    /\ Len(prefix) <= Len(v)
    /\ \A i \in 1..Len(prefix) : v[i] = prefix[i]

\* NamelessMatchSpec::from_str on the constraint strings that occur in the
\* model's inputs.  A parsed constraint is a record; a string outside the
\* table does not parse (Err).
AnySpec == [op |-> "any", lo |-> <<>>, hi |-> <<>>]
ExactSpec(v) == [op |-> "eq", lo |-> v, hi |-> v]
PrefixSpec(v) == [op |-> "prefix", lo |-> v, hi |-> v]
AtLeastSpec(v) == [op |-> "ge", lo |-> v, hi |-> <<>>]
RangeSpec(lo, hi) == [op |-> "range", lo |-> lo, hi |-> hi]

MatchSpecTable ==
    [s \in {"", "1", "2", "2.0", "2.17", "2.28", "3.10.*", ">=2", ">=3.11",
            ">=3.11,<3.12", ">=2.17", ">=2.28"} |->
        CASE s = "" -> AnySpec
          [] s = "1" -> ExactSpec(<<Num(1)>>)
          [] s = "2" -> ExactSpec(<<Num(2)>>)
          [] s = "2.0" -> ExactSpec(<<Num(2), Num(0)>>)
          [] s = "2.17" -> ExactSpec(<<Num(2), Num(17)>>)
          [] s = "2.28" -> ExactSpec(<<Num(2), Num(28)>>)
          [] s = "3.10.*" -> PrefixSpec(<<Num(3), Num(10)>>)
          [] s = ">=2" -> AtLeastSpec(<<Num(2)>>)
          [] s = ">=2.17" -> AtLeastSpec(<<Num(2), Num(17)>>)
          [] s = ">=2.28" -> AtLeastSpec(<<Num(2), Num(28)>>)
          [] s = ">=3.11" -> AtLeastSpec(<<Num(3), Num(11)>>)
          [] s = ">=3.11,<3.12" ->
                RangeSpec(<<Num(3), Num(11)>>, <<Num(3), Num(12)>>)]

ParsesAsMatchSpec(s) == s \in DOMAIN MatchSpecTable
from_str(s) == MatchSpecTable[s]

\* What a constraint of kind op asks of the version's comparison with its
\* bounds.
SpecHolds(op, cmp_lo, cmp_hi, has_prefix) ==
    CASE op = "any" -> TRUE
      [] op = "eq" -> cmp_lo = 0
      [] op = "prefix" -> has_prefix
      [] op = "ge" -> cmp_lo >= 0
      [] op = "range" -> cmp_lo >= 0 /\ cmp_hi < 0

\* NamelessMatchSpec::matches(record): the version constraint against the
\* record's version.
matches(spec, package_record) ==
    SpecHolds(spec.op,
              VersionCmp(package_record.version, spec.lo),
              VersionCmp(package_record.version, spec.hi),
              VersionStartsWith(package_record.version, spec.lo))

\* A PackageRecord with the fields the code reads.  features is an Option,
\* track_features and depends are Vec<String>.
PackageRecord(name, version, build, build_number, features, track_features, depends) ==
    [name |-> name, version |-> version, build |-> build,
     build_number |-> build_number, features |-> features,
     track_features |-> track_features, depends |-> depends]

\* One entry of a RepoData package map: filename -> record.
Entry(filename, package_record) ==
    [filename |-> filename, package_record |-> package_record]

(***************************************************************************)
(* rawrepodata.rs: the ingestion order.                                    *)
(***************************************************************************)

\* The comparator of sorted_iter: name, then version, then filename.
EntryCmp(a, b) ==
    ThenCmp(StrCmp(a.package_record.name, b.package_record.name),
            ThenCmp(VersionCmp(a.package_record.version, b.package_record.version),
                    StrCmp(a.filename, b.filename)))

\* sort_unstable_by on entries with distinct filenames: selection of the
\* least remaining entry.
RECURSIVE SortEntries(_)
RECURSIVE LeastFirst(_, _)
LeastFirst(entries, least) == <<least>> \o SortEntries(entries \ {least})

SortEntries(entries) ==
    IF entries = {} THEN <<>>
    ELSE LeastFirst(entries,
                    CHOOSE x \in entries : \A y \in entries : EntryCmp(x, y) <= 0)

\* sorted_iter(repodatas): every entry of packages and packages.conda of
\* every repodata, sorted.  A RepoData is [packages, conda_packages], each a
\* set of entries with distinct filenames.
sorted_iter(repodatas) ==
    SortEntries(UNION {repodatas[i].packages \cup repodatas[i].conda_packages :
                       i \in 1..Len(repodatas)})

(***************************************************************************)
(* packagerelations.rs: the engine.  A PackageRelations value is a record  *)
(* of the struct's fields.  PkgIdx is 0-based as in the code; the vectors  *)
(* are TLA+ sequences, so id i is element i + 1.  A HashMap is a function  *)
(* on its keys.                                                            *)
(***************************************************************************)

At(vec, index) == vec[index + 1]
SetAt(vec, index, value) == [vec EXCEPT ![index + 1] = value]

\* PkgIdx::range_to: start .. start + offset as a sequence of ids.
range_to(start, offset) == [k \in 1..offset |-> start + k - 1]

\* The empty engine (PackageRelations::new).
new ==
    [removed |-> <<>>,
     package_dependencies |-> <<>>,
     package_metadatas |-> <<>>,
     filename_to_metadata |-> <<>>,
     package_name_to_providers |-> <<>>]

\* Split a dependency clause at the end of its first token.
NameAndSpec(depend, dependency_name) ==
    <<dependency_name,
      IF Len(dependency_name) = Len(depend) THEN ""
      ELSE SubSeq(depend, Len(dependency_name) + 2, Len(depend))>>

dependsstr_to_name_and_spec(depend) == NameAndSpec(depend, FirstToken(depend))

\* HashMap::insert on a function: insert or overwrite.
MapPut(map, key, value) ==
    [k \in (DOMAIN map) \cup {key} |-> IF k = key THEN value ELSE map[k]]

\* entry(key).or_default() / or_insert_with(make): the value under key, or the
\* fresh one.
EntryOr(map, key, fresh) == IF key \in DOMAIN map THEN map[key] ELSE fresh

\* A new edge, as insert creates it.
NewDependency(dependency_spec) ==
    [unsatisfiable |-> FALSE,
     matchspec |-> from_str(dependency_spec),
     last_successful_resolution |-> <<>>,
     dependers |-> <<>>]

\* A variant of the push that only records the depender that creates the
\* edge.
PushDependerOnce(by_spec, dependency_spec, dependency, index) ==
    MapPut(by_spec, dependency_spec,
           IF dependency.dependers = <<>>
           THEN [dependency EXCEPT !.dependers = Append(@, index)]
           ELSE dependency)

\* dependency.dependers.push(index) on the edge found or created under
\* (dependency_name, dependency_spec).
PushDepender(by_spec, dependency_spec, dependency, index) ==
    MapPut(by_spec, dependency_spec,
           [dependency EXCEPT !.dependers = Append(@, index)])

PushInto(package_dependencies, dependency_name, dependency_spec, by_spec, index) ==
    MapPut(package_dependencies, dependency_name,
           PushDepender(by_spec, dependency_spec,
                        EntryOr(by_spec, dependency_spec,
                                NewDependency(dependency_spec)),
                        index))

\* The body of insert's loop over depends for one clause, split into ns.
AddDepender(package_dependencies, ns, index) ==
    PushInto(package_dependencies, ns[1], ns[2],
             EntryOr(package_dependencies, ns[1], <<>>), index)

RECURSIVE AddDependers(_, _, _, _)
AddDependers(package_dependencies, depends, i, index) ==
    IF i > Len(depends) THEN package_dependencies
    ELSE AddDependers(
            AddDepender(package_dependencies,
                        dependsstr_to_name_and_spec(depends[i]), index),
            depends, i + 1, index)

\* A variant of the range update that never counts past the offset a new
\* range starts with.
InsertedRangeUncounted(providers, package_name, index) ==
    IF index = 0 THEN <<index, 1>>
    ELSE IF package_name \in DOMAIN providers
    THEN providers[package_name]
    ELSE <<index, 1>>

\* The range insert stores for the record's name: (index, 1) for the very
\* first record, else entry(name).or_insert((index, 0)) with its offset
\* incremented.
InsertedRange(providers, package_name, index) ==
    IF index = 0 THEN <<index, 1>>
    ELSE IF package_name \in DOMAIN providers
    THEN <<providers[package_name][1], providers[package_name][2] + 1>>
    ELSE <<index, 1>>

\* A variant of insert that does not push the record's bit.
InsertAtBitless(rel, filename, package_record, index) ==
    [removed |-> rel.removed,
     package_metadatas |->
        Append(rel.package_metadatas,
               [filename |-> filename, package_record |-> package_record]),
     package_name_to_providers |->
        MapPut(rel.package_name_to_providers, package_record.name,
               InsertedRange(rel.package_name_to_providers,
                             package_record.name, index)),
     filename_to_metadata |-> MapPut(rel.filename_to_metadata, filename, index),
     package_dependencies |->
        AddDependers(rel.package_dependencies, package_record.depends, 1, index)]

\* insert(matchspec_cache, filename, package_record); index is the id the
\* record gets.
InsertAt(rel, filename, package_record, index) ==
    [removed |-> Append(rel.removed, FALSE),
     package_metadatas |->
        Append(rel.package_metadatas,
               [filename |-> filename, package_record |-> package_record]),
     package_name_to_providers |->
        MapPut(rel.package_name_to_providers, package_record.name,
               InsertedRange(rel.package_name_to_providers,
                             package_record.name, index)),
     filename_to_metadata |-> MapPut(rel.filename_to_metadata, filename, index),
     package_dependencies |->
        AddDependers(rel.package_dependencies, package_record.depends, 1, index)]

insert(rel, filename, package_record) ==
    InsertAt(rel, filename, package_record, Len(rel.package_metadatas))

\* insert panics (expect) when a clause's constraint does not parse.
InsertPanics(package_record) ==
    \E i \in 1..Len(package_record.depends) :
        ~ParsesAsMatchSpec(dependsstr_to_name_and_spec(package_record.depends[i])[2])

\* mkrange(package_name): the ids of the name's range, or none.
mkrange(rel, package_name) ==
    IF package_name \in DOMAIN rel.package_name_to_providers
    THEN range_to(rel.package_name_to_providers[package_name][1],
                  rel.package_name_to_providers[package_name][2])
    ELSE <<>>

\* The iteration order of a HashMap or HashSet: some fixed order of its keys.
RECURSIVE SetToSeq(_)
RECURSIVE PickFirst(_, _)
PickFirst(S, x) == <<x>> \o SetToSeq(S \ {x})

SetToSeq(S) == IF S = {} THEN <<>> ELSE PickFirst(S, CHOOSE y \in S : TRUE)

\* Concatenation of a sequence of sequences (flat_map, append).
RECURSIVE Flatten(_)
Flatten(seqs) == IF seqs = <<>> THEN <<>> ELSE Head(seqs) \o Flatten(Tail(seqs))

\* A variant of that loop which flips the bit instead of setting it.
RECURSIVE MarkRemovedFlipping(_, _, _)
MarkRemovedFlipping(rel, result, i) ==
    IF i > Len(result) THEN rel
    ELSE MarkRemovedFlipping(
            [rel EXCEPT !.removed =
                SetAt(@, rel.filename_to_metadata[result[i].filename],
                      ~At(@, rel.filename_to_metadata[result[i].filename]))],
            result, i + 1)

\* The loop the passes end with: for res in &result, set the removed bit of
\* filename_to_metadata[res.filename].
RECURSIVE MarkRemoved(_, _, _)
MarkRemoved(rel, result, i) ==
    IF i > Len(result) THEN rel
    ELSE MarkRemoved(
            [rel EXCEPT !.removed =
                SetAt(@, rel.filename_to_metadata[result[i].filename], TRUE)],
            result, i + 1)

\* A variant that returns the logs without the loop that sets the bits.
RemovingUnmarked(rel, result) == [relations |-> rel, result |-> result]

\* What such a pass returns: the engine after the loop, and the logs.
Removing(rel, result) ==
    [relations |-> MarkRemoved(rel, result, 1), result |-> result]

\* A pass that returns early, without logs.
Untouched(rel) == [relations |-> rel, result |-> <<>>]

\* regex .*h[\da-zA-Z]{7}.+\d, searched anywhere in the build string: an "h",
\* seven alphanumerics, at least one more character, then a digit.  (The
\* model's build strings are lower case.)
PatternIsMatch(build) ==
    \E i \in 1..Len(build) :
        /\ CharAt(build, i) = "h"
        /\ i + 7 <= Len(build)
        /\ \A k \in (i + 1)..(i + 7) : IsAlnum(CharAt(build, k))
        /\ \E j \in (i + 9)..Len(build) : IsDigit(CharAt(build, j))

\* The chunk_by key: (name, version, build without a trailing build number).
StrippedBuild(build, buildnumstr) ==
    IF EndsWith(build, buildnumstr)
    THEN SubSeq(build, 1, Len(build) - Len(buildnumstr))
    ELSE build

BuildPruneKey(pkg) ==
    <<pkg.package_record.name, pkg.package_record.version,
      StrippedBuild(pkg.package_record.build,
                    to_string(pkg.package_record.build_number))>>

\* chunk_by groups consecutive elements with equal keys; keys[i] is the key
\* of element i.  The first and the last position of the chunk holding i.
RECURSIVE ChunkEnd(_, _)
ChunkEnd(keys, i) ==
    IF i < Len(keys) /\ keys[i + 1] = keys[i] THEN ChunkEnd(keys, i + 1) ELSE i

IsChunkStart(keys, i) == i = 1 \/ keys[i - 1] # keys[i]

\* `big`: the build number that decides a chunk, read from its last element.
ChunkBig(packages) == packages[Len(packages)].package_record.build_number

\* A variant of the chunk's loop that also logs a build number equal to big.
ChunkLogsTied(packages) ==
    IF Len(packages) < 2 THEN <<>>
    ELSE Flatten([k \in 1..(Len(packages) - 1) |->
            IF packages[k].package_record.build_number <= ChunkBig(packages)
            THEN <<[kind |-> "RemovedBySupercedingBuild",
                    filename |-> packages[k].filename,
                    package_name |-> packages[1].package_record.name,
                    build_number |-> ChunkBig(packages)]>>
            ELSE <<>>])

\* The logs of one chunk (none for a chunk of fewer than 2).
ChunkLogs(packages) ==
    IF Len(packages) < 2 THEN <<>>
    ELSE Flatten([k \in 1..(Len(packages) - 1) |->
            IF packages[k].package_record.build_number < ChunkBig(packages)
            THEN <<[kind |-> "RemovedBySupercedingBuild",
                    filename |-> packages[k].filename,
                    package_name |-> packages[1].package_record.name,
                    build_number |-> ChunkBig(packages)]>>
            ELSE <<>>])

MatchesPattern(pkg) == PatternIsMatch(pkg.package_record.build)

BuildPruneLogs(pkgs, keys) ==
    Flatten([i \in 1..Len(pkgs) |->
        IF IsChunkStart(keys, i)
        THEN ChunkLogs(SubSeq(pkgs, i, ChunkEnd(keys, i)))
        ELSE <<>>])

BuildPruneChunks(pkgs) ==
    BuildPruneLogs(pkgs, [i \in 1..Len(pkgs) |-> BuildPruneKey(pkgs[i])])

apply_build_prune(rel) ==
    Removing(rel, BuildPruneChunks(SelectSeq(rel.package_metadatas, MatchesPattern)))

\* The feature a record is removed for, if any: its features tag first, then
\* the first banned entry of track_features.
FirstTracked(track_features, hits) ==
    IF hits = {} THEN <<>> ELSE <<track_features[Least(hits)]>>

\* A variant that looks at the features tag only.
BannedFeatureOfTag(package_record, features) ==
    IF package_record.features # <<>> /\ package_record.features[1] \in features
    THEN <<package_record.features[1]>>
    ELSE <<>>

BannedFeatureOf(package_record, features) ==
    IF package_record.features # <<>> /\ package_record.features[1] \in features
    THEN <<package_record.features[1]>>
    ELSE FirstTracked(package_record.track_features,
                      {k \in 1..Len(package_record.track_features) :
                            package_record.track_features[k] \in features})

FeatureLog(package, feature) ==
    IF feature = <<>> THEN <<>>
    ELSE <<[kind |-> "RemovedWithFeature",
            filename |-> package.filename,
            package_name |-> package.package_record.name,
            feature |-> feature[1]]>>

apply_feature_removal(rel, features) ==
    IF features = {} THEN Untouched(rel)
    ELSE Removing(rel,
            Flatten([i \in 1..Len(rel.package_metadatas) |->
                FeatureLog(rel.package_metadatas[i],
                           BannedFeatureOf(rel.package_metadatas[i].package_record,
                                           features))]))

\* The predicate of apply_dev_rc_ban over the components of a version.
IsSomeRc(the_str) == the_str # <<>> /\ StartsWith(the_str[1], "rc")

DevRcBanned(version, ban_dev, ban_rc) ==
    \E i \in 1..Len(version) :
        \/ ban_dev /\ is_dev(version[i])
        \/ ban_rc /\ IsSomeRc(as_string(version[i]))

apply_dev_rc_ban(rel, ban_dev, ban_rc) ==
    IF ~(ban_dev \/ ban_rc) THEN Untouched(rel)
    ELSE Removing(rel,
            Flatten([i \in 1..Len(rel.package_metadatas) |->
                IF DevRcBanned(rel.package_metadatas[i].package_record.version,
                               ban_dev, ban_rc)
                THEN <<[kind |-> "RemovedByDevRcPolicy",
                        filename |-> rel.package_metadatas[i].filename,
                        package_name |-> rel.package_metadatas[i].package_record.name]>>
                ELSE <<>>]))

\* architecture.splitn(2, '-').next(): the text before the first '-'.
RECURSIVE DashAt(_, _)
DashAt(s, i) == IF i <= Len(s) /\ CharAt(s, i) # "-" THEN DashAt(s, i + 1) ELSE i

OsToken(architecture) == SubSeq(architecture, 1, DashAt(architecture, 1) - 1)

\* A variant of the table without the "freebsd" alternative of its first
\* arm.
VirtualPackageBansOsx(os) ==
    CASE os = "osx" -> <<"__linux", "__win", "__glibc">>
      [] os = "linux" -> <<"__osx", "__win">>
      [] os = "win" -> <<"__linux", "__unix", "__glibc", "__osx">>
      [] OTHER -> <<>>

VirtualPackageBans(os) ==
    CASE os \in {"osx", "freebsd"} -> <<"__linux", "__win", "__glibc">>
      [] os = "linux" -> <<"__osx", "__win">>
      [] os = "win" -> <<"__linux", "__unix", "__glibc", "__osx">>
      [] OTHER -> <<>>

get_virtual_package_bans(architecture) == VirtualPackageBans(OsToken(architecture))

\* "Mark the dependencies as unresolveable": every edge keyed under a banned
\* virtual name.
MarkVirtualEdges(package_dependencies, bans) ==
    [n \in DOMAIN package_dependencies |->
        IF \E k \in 1..Len(bans) : bans[k] = n
        THEN [sp \in DOMAIN package_dependencies[n] |->
                [package_dependencies[n][sp] EXCEPT !.unsatisfiable = TRUE]]
        ELSE package_dependencies[n]]

\* A variant of the logs that leaves out the last depender of the edge.
ArchitectureLogsButLast(rel, dependency_name, dependers, architecture) ==
    [m \in 1..(Len(dependers) - 1) |->
        [kind |-> "RemovedIncompatibleArchitecture",
         filename |-> At(rel.package_metadatas, dependers[m]).filename,
         package_name |-> At(rel.package_metadatas, dependers[m]).package_record.name,
         virtual_package |-> dependency_name,
         actual_architecture |-> architecture]]

\* The logs for the dependers of one edge keyed under a banned name.
ArchitectureLogs(rel, dependency_name, dependers, architecture) ==
    [m \in 1..Len(dependers) |->
        [kind |-> "RemovedIncompatibleArchitecture",
         filename |-> At(rel.package_metadatas, dependers[m]).filename,
         package_name |-> At(rel.package_metadatas, dependers[m]).package_record.name,
         virtual_package |-> dependency_name,
         actual_architecture |-> architecture]]

\* The logs for every edge keyed under one banned name; specs lists the
\* edge keys.
BannedNameLogs(rel, dependency_name, specs, architecture) ==
    Flatten([k \in 1..Len(specs) |->
        ArchitectureLogs(rel, dependency_name,
                         rel.package_dependencies[dependency_name][specs[k]].dependers,
                         architecture)])

IncompatibleLogs(rel, bans, architecture) ==
    Flatten([b \in 1..Len(bans) |->
        IF bans[b] \notin DOMAIN rel.package_dependencies THEN <<>>
        ELSE BannedNameLogs(rel, bans[b],
                            SetToSeq(DOMAIN rel.package_dependencies[bans[b]]),
                            architecture)])

\* A variant without the loop that marks the edges.
MarkingNoEdges(out, bans) == out

MarkingEdges(out, bans) ==
    [relations |->
        [out.relations EXCEPT !.package_dependencies = MarkVirtualEdges(@, bans)],
     result |-> out.result]

IncompatibleWith(rel, bans, architecture) ==
    MarkingEdges(Removing(rel, IncompatibleLogs(rel, bans, architecture)), bans)

apply_incompatible_architecture(rel, architecture) ==
    IncompatibleWith(rel, get_virtual_package_bans(architecture), architecture)

\* A variant of the inner loop that asks every spec to match.
EveryMatches(specs, package_record) ==
    \A k \in 1..Len(specs) : matches(specs[k], package_record)

\* apply_matchspecs(package_name, specs): walk the name's range; a surviving
\* record that no spec matches is removed and logged.
AnyMatches(specs, package_record) ==
    \E k \in 1..Len(specs) : matches(specs[k], package_record)

\* A variant of the removal that also forgets the cached resolutions of the
\* edges keyed under the removed record's name.
RemoveByUserForgetting(acc, index, md) ==
    [relations |->
        [acc.relations EXCEPT
            !.removed = SetAt(@, index, TRUE),
            !.package_dependencies =
                [n \in DOMAIN @ |->
                    IF n = md.package_record.name
                    THEN [s \in DOMAIN @[n] |->
                            [@[n][s] EXCEPT !.last_successful_resolution = <<>>]]
                    ELSE @[n]]],
     result |-> Append(acc.result,
                       [kind |-> "RemovedByUser",
                        package_name |-> md.package_record.name,
                        filename |-> md.filename])]

RemoveByUser(acc, index, md) ==
    [relations |-> [acc.relations EXCEPT !.removed = SetAt(@, index, TRUE)],
     result |-> Append(acc.result,
                       [kind |-> "RemovedByUser",
                        package_name |-> md.package_record.name,
                        filename |-> md.filename])]

\* A variant of the walk that does not skip the records already removed.
RECURSIVE MatchspecsWalkRemoved(_, _, _, _)
MatchspecsWalkRemoved(acc, range, specs, i) ==
    IF i > Len(range) THEN acc
    ELSE MatchspecsWalkRemoved(
            IF AnyMatches(specs,
                          At(acc.relations.package_metadatas, range[i]).package_record)
            THEN acc
            ELSE RemoveByUser(acc, range[i],
                              At(acc.relations.package_metadatas, range[i])),
            range, specs, i + 1)

RECURSIVE MatchspecsWalk(_, _, _, _)
MatchspecsWalk(acc, range, specs, i) ==
    IF i > Len(range) THEN acc
    ELSE MatchspecsWalk(
            IF \/ At(acc.relations.removed, range[i])
               \/ AnyMatches(specs,
                             At(acc.relations.package_metadatas, range[i]).package_record)
            THEN acc
            ELSE RemoveByUser(acc, range[i],
                              At(acc.relations.package_metadatas, range[i])),
            range, specs, i + 1)

apply_matchspecs(rel, package_name, specs) ==
    MatchspecsWalk(Untouched(rel), mkrange(rel, package_name), specs, 1)

\* result.append(&mut one): the engine as the later call left it, the logs
\* concatenated.
Appending(acc, one) ==
    [relations |-> one.relations, result |-> acc.result \o one.result]

\* apply_user_matchspecs(user_matchspecs): apply_matchspecs for every entry
\* of the map.
RECURSIVE UserMatchspecsLoop(_, _, _, _)
UserMatchspecsLoop(acc, user_matchspecs, names, i) ==
    IF i > Len(names) THEN acc
    ELSE UserMatchspecsLoop(
            Appending(acc, apply_matchspecs(acc.relations, names[i],
                                            user_matchspecs[names[i]])),
            user_matchspecs, names, i + 1)

apply_user_matchspecs(rel, user_matchspecs) ==
    UserMatchspecsLoop(Untouched(rel), user_matchspecs,
                       SetToSeq(DOMAIN user_matchspecs), 1)

\* A variant of the tail that starts one id after the cached resolution's
\* successor.
wrap_range_past_middle(start, end_offset, middle) ==
    IF middle # <<>>
    THEN [k \in 1..(end_offset - middle[1] - 2) |-> start + middle[1] + k + 1]
    ELSE range_to(start, end_offset)

\* wrap_range_from_middle(start, end_offset, middle): the ids searched.
wrap_range_from_middle(start, end_offset, middle) ==
    IF middle # <<>>
    THEN [k \in 1..(end_offset - middle[1]) |-> start + middle[1] + k - 1]
    ELSE range_to(start, end_offset)

\* The (start, end offset) evaluate searches.  For a name without records the
\* code takes (u32::MAX, 0): the range is empty and its start is never added
\* to, so the model writes that start as 0.
Candidates(rel, name) ==
    IF name \in DOMAIN rel.package_name_to_providers
    THEN rel.package_name_to_providers[name]
    ELSE <<0, 0>>

\* Iterator::find over ids, given the positions the closure accepts.
FirstOf(ids, hits) == IF hits = {} THEN <<>> ELSE <<ids[Least(hits)]>>

MatchesAt(rel, dependency, index) ==
    matches(dependency.matchspec, At(rel.package_metadatas, index).package_record)

\* A variant of the search that takes the last id the closure accepts.
FindSurvivingLast(rel, dependency, ids) ==
    IF \A k \in 1..Len(ids) :
          At(rel.removed, ids[k]) \/ ~MatchesAt(rel, dependency, ids[k])
    THEN <<>>
    ELSE <<ids[CHOOSE k \in 1..Len(ids) :
                 /\ ~At(rel.removed, ids[k]) /\ MatchesAt(rel, dependency, ids[k])
                 /\ \A j \in (k + 1)..Len(ids) :
                       At(rel.removed, ids[j]) \/ ~MatchesAt(rel, dependency, ids[j])]>>

\* .find(|index| !removed[index] && matchspec.matches(record))
FindSurviving(rel, dependency, ids) ==
    FirstOf(ids, {k \in 1..Len(ids) :
                    ~At(rel.removed, ids[k]) /\ MatchesAt(rel, dependency, ids[k])})

\* .find(|index| removed[index] && matchspec.matches(record))
FindRemoved(rel, dependency, ids) ==
    FirstOf(ids, {k \in 1..Len(ids) :
                    At(rel.removed, ids[k]) /\ MatchesAt(rel, dependency, ids[k])})

\* A variant of the attribution that always searches the range.
CauseOfRemovalSearched(rel, dependency, candidates) ==
    FindRemoved(rel, dependency,
                wrap_range_from_middle(candidates[1], candidates[2], <<>>))

CauseOfRemoval(rel, dependency, candidates) ==
    IF dependency.last_successful_resolution # <<>>
    THEN <<candidates[1] + dependency.last_successful_resolution[1]>>
    ELSE FindRemoved(rel, dependency,
                     wrap_range_from_middle(candidates[1], candidates[2], <<>>))

\* The Evaluation evaluate returns once the search is done.
Proposal(dependency_key, candidates_start, new_solution_index, cause_of_removal_index) ==
    IF new_solution_index # <<>>
    THEN <<[kind |-> "UpdateSolution", key |-> dependency_key,
            offset |-> <<new_solution_index[1] - candidates_start>>]>>
    ELSE <<[kind |-> "RemoveAndLog", key |-> dependency_key,
            offset |-> cause_of_removal_index]>>

\* A variant of evaluate without the early return on a cached resolution
\* that is still alive: it always searches.
EvaluateInSearching(rel, dependency_key, dependency, candidates) ==
    Proposal(dependency_key, candidates[1],
             FindSurviving(rel, dependency,
                   wrap_range_from_middle(candidates[1], candidates[2],
                                          dependency.last_successful_resolution)),
             CauseOfRemoval(rel, dependency, candidates))

EvaluateIn(rel, dependency_key, dependency, candidates) ==
    IF /\ dependency.last_successful_resolution # <<>>
       /\ ~At(rel.removed, candidates[1] + dependency.last_successful_resolution[1])
    THEN <<>>
    ELSE Proposal(dependency_key, candidates[1],
                  FindSurviving(rel, dependency,
                        wrap_range_from_middle(candidates[1], candidates[2],
                                               dependency.last_successful_resolution)),
                  CauseOfRemoval(rel, dependency, candidates))

\* evaluate(dependency_key, dependency): None (<<>>) or Some(Evaluation).
evaluate(rel, dependency_key, dependency) ==
    EvaluateIn(rel, dependency_key, dependency, Candidates(rel, dependency_key.name))

\* A variant of the evaluate phase that does not skip unsatisfiable edges.
EdgeProposalsUnlatched(rel, dependency_name, specs) ==
    Flatten([k \in 1..Len(specs) |->
        EvaluateIn(rel, [name |-> dependency_name, matchspec |-> specs[k]],
                   rel.package_dependencies[dependency_name][specs[k]],
                   Candidates(rel, dependency_name))])

\* The evaluate phase of find_unresolveables: the proposals for every edge
\* keyed under a candidate name that is not yet unsatisfiable.
EdgeProposals(rel, dependency_name, specs) ==
    Flatten([k \in 1..Len(specs) |->
        IF rel.package_dependencies[dependency_name][specs[k]].unsatisfiable
        THEN <<>>
        ELSE evaluate(rel, [name |-> dependency_name, matchspec |-> specs[k]],
                      rel.package_dependencies[dependency_name][specs[k]])])

Updates(rel, depending_ons) ==
    Flatten([n \in 1..Len(depending_ons) |->
        IF depending_ons[n] \notin DOMAIN rel.package_dependencies THEN <<>>
        ELSE EdgeProposals(rel, depending_ons[n],
                           SetToSeq(DOMAIN rel.package_dependencies[depending_ons[n]]))])

\* The apply phase, UpdateSolution arm.
UpdateSolution(acc, key, offset) ==
    [relations |->
        [acc.relations EXCEPT !.package_dependencies[key.name][key.matchspec]
                                    .last_successful_resolution = offset],
     result |-> acc.result]

\* The apply phase, RemoveAndLog arm: the bits of the dependers ...
RECURSIVE RemoveDependers(_, _, _)
RemoveDependers(removed, dependers, k) ==
    IF k > Len(dependers) THEN removed
    ELSE RemoveDependers(SetAt(removed, dependers[k], TRUE), dependers, k + 1)

\* ... and one log for every entry of the depender list.
UnsatisfiableLogs(rel, key, dependency, offset) ==
    [k \in 1..Len(dependency.dependers) |->
        [kind |-> "RemovedUnsatisfiable",
         dependency_package_name |-> key.name,
         filename |-> At(rel.package_metadatas, dependency.dependers[k]).filename,
         package_name |->
            At(rel.package_metadatas, dependency.dependers[k]).package_record.name,
         matchspec |-> dependency.matchspec,
         cause_filename |->
            IF offset = <<>> THEN <<>>
            ELSE <<At(rel.package_metadatas, offset[1]).filename>>]]

\* A variant of the RemoveAndLog arm that leaves out the last depender.
RemoveAndLogButLast(acc, key, dependency, offset) ==
    [relations |->
        [acc.relations EXCEPT
            !.package_dependencies[key.name][key.matchspec].unsatisfiable = TRUE,
            !.removed = RemoveDependers(@,
                            SubSeq(dependency.dependers, 1,
                                   Len(dependency.dependers) - 1), 1)],
     result |-> acc.result \o UnsatisfiableLogs(acc.relations, key, dependency, offset)]

\* A variant of the RemoveAndLog arm that does not set the edge's flag.
RemoveAndLogUnlatched(acc, key, dependency, offset) ==
    [relations |->
        [acc.relations EXCEPT
            !.removed = RemoveDependers(@, dependency.dependers, 1)],
     result |-> acc.result \o UnsatisfiableLogs(acc.relations, key, dependency, offset)]

RemoveAndLog(acc, key, dependency, offset) ==
    [relations |->
        [acc.relations EXCEPT
            !.package_dependencies[key.name][key.matchspec].unsatisfiable = TRUE,
            !.removed = RemoveDependers(@, dependency.dependers, 1)],
     result |-> acc.result \o UnsatisfiableLogs(acc.relations, key, dependency, offset)]

ApplyEvaluation(acc, evaluation) ==
    IF evaluation.kind = "UpdateSolution"
    THEN UpdateSolution(acc, evaluation.key, evaluation.offset)
    ELSE RemoveAndLog(acc, evaluation.key,
            acc.relations.package_dependencies[evaluation.key.name]
                                              [evaluation.key.matchspec],
            evaluation.offset)

RECURSIVE ApplyUpdates(_, _, _)
ApplyUpdates(acc, updates, i) ==
    IF i > Len(updates) THEN acc
    ELSE ApplyUpdates(ApplyEvaluation(acc, updates[i]), updates, i + 1)

\* A variant of find_unresolveables in one phase: every edge is evaluated on
\* the engine as the edges before it left it, and applied at once.
RECURSIVE EdgesInTurn(_, _, _, _)
EdgesInTurn(acc, dependency_name, specs, k) ==
    IF k > Len(specs) THEN acc
    ELSE EdgesInTurn(
            ApplyUpdates(acc,
                         EdgeProposals(acc.relations, dependency_name, <<specs[k]>>),
                         1),
            dependency_name, specs, k + 1)

RECURSIVE NamesInTurn(_, _, _)
NamesInTurn(acc, depending_ons, n) ==
    IF n > Len(depending_ons) THEN acc
    ELSE NamesInTurn(
            IF depending_ons[n] \notin DOMAIN acc.relations.package_dependencies
            THEN acc
            ELSE EdgesInTurn(acc, depending_ons[n],
                    SetToSeq(DOMAIN acc.relations.package_dependencies[depending_ons[n]]),
                    1),
            depending_ons, n + 1)

find_unresolveables_in_turn(rel, depending_ons) ==
    NamesInTurn(Untouched(rel), depending_ons, 1)

\* find_unresolveables(depending_ons): every proposal is computed on the
\* engine as the call found it, then the proposals are applied.
find_unresolveables(rel, depending_ons) ==
    ApplyUpdates(Untouched(rel), Updates(rel, depending_ons), 1)

\* get_dependencies(index): (dependency name, edge) for every clause of the
\* record, in the order of its depends list.
EdgeOf(rel, ns) ==
    [name |-> ns[1], dependency |-> rel.package_dependencies[ns[1]][ns[2]]]

DependenciesOf(rel, depends) ==
    [k \in 1..Len(depends) |-> EdgeOf(rel, dependsstr_to_name_and_spec(depends[k]))]

get_dependencies(rel, index) ==
    DependenciesOf(rel, At(rel.package_metadatas, index).package_record.depends)

\* The first surviving variant: relevant_packages gets every dependency name,
\* relevant_matchspecs.insert(name, {matchspec}) for every clause.
RECURSIVE FirstVariantSpecs(_, _, _)
FirstVariantSpecs(deps, i, relevant_matchspecs) ==
    IF i > Len(deps) THEN relevant_matchspecs
    ELSE FirstVariantSpecs(deps, i + 1,
            MapPut(relevant_matchspecs, deps[i].name, {deps[i].dependency.matchspec}))

FirstVariant(deps) ==
    [relevant_packages |-> {deps[k].name : k \in 1..Len(deps)},
     relevant_matchspecs |-> FirstVariantSpecs(deps, 1, <<>>)]

\* A later surviving variant: a clause on a name already in
\* relevant_matchspecs adds its matchspec to that name's set and the name to
\* local_relevant_packages; relevant_packages is intersected with those.
RECURSIVE LaterVariantSpecs(_, _, _)
LaterVariantSpecs(deps, i, relevant_matchspecs) ==
    IF i > Len(deps) THEN relevant_matchspecs
    ELSE LaterVariantSpecs(deps, i + 1,
            IF deps[i].name \in DOMAIN relevant_matchspecs
            THEN [relevant_matchspecs EXCEPT ![deps[i].name] =
                        @ \cup {deps[i].dependency.matchspec}]
            ELSE relevant_matchspecs)

LaterVariant(scan, deps) ==
    [relevant_packages |->
        scan.relevant_packages \cap
            {deps[k].name : k \in {m \in 1..Len(deps) :
                                    deps[m].name \in DOMAIN scan.relevant_matchspecs}},
     relevant_matchspecs |-> LaterVariantSpecs(deps, 1, scan.relevant_matchspecs)]

\* The loop over the remaining surviving variants, with its break.
RECURSIVE LaterVariants(_, _, _, _)
RECURSIVE UnlessEmpty(_, _, _, _)
UnlessEmpty(rel, range, i, scan) ==
    IF scan.relevant_packages = {} THEN scan
    ELSE LaterVariants(rel, range, i + 1, scan)

LaterVariants(rel, range, i, scan) ==
    IF i > Len(range) THEN scan
    ELSE UnlessEmpty(rel, range, i,
                     LaterVariant(scan, get_dependencies(rel, range[i])))

\* A variant of the range that keeps the removed variants.
WholeRange(rel, package_name) == mkrange(rel, package_name)

\* mkrange(package_name).filter(|index| !removed[index])
SurvivingRange(rel, package_name) ==
    LET survives(index) == ~At(rel.removed, index)
    IN SelectSeq(mkrange(rel, package_name), survives)

\* The scan of apply_must_compatible over a non-empty surviving range: the
\* names every surviving variant depends on and the matchspecs collected.
MustCompatibleScan(rel, range) ==
    LaterVariants(rel, Tail(range), 1, FirstVariant(get_dependencies(rel, range[1])))

\* The logs of apply_matchspecs, pushed as RemovedBecauseIncompatible.
Incompatible(logs, package_name) ==
    [k \in 1..Len(logs) |->
        [kind |-> "RemovedBecauseIncompatible",
         package_name |-> logs[k].package_name,
         filename |-> logs[k].filename,
         incompatible_with |-> package_name]]

PushIncompatible(acc, one, package_name) ==
    [relations |-> one.relations,
     result |-> acc.result \o Incompatible(one.result, package_name),
     overflow |-> acc.overflow]

\* A variant of the filtering loop that stops before the last relevant
\* package.
RECURSIVE MustCompatibleFilterButLast(_, _, _, _, _)
MustCompatibleFilterButLast(acc, package_name, relevant_matchspecs, order, i) ==
    IF i >= Len(order) THEN acc
    ELSE MustCompatibleFilterButLast(
            PushIncompatible(acc,
                apply_matchspecs(acc.relations, order[i],
                                 SetToSeq(relevant_matchspecs[order[i]])),
                package_name),
            package_name, relevant_matchspecs, order, i + 1)

\* The filtering loop of apply_must_compatible: apply_matchspecs on every
\* relevant package with the matchspecs collected for it.
RECURSIVE MustCompatibleFilter(_, _, _, _, _)
MustCompatibleFilter(acc, package_name, relevant_matchspecs, order, i) ==
    IF i > Len(order) THEN acc
    ELSE MustCompatibleFilter(
            PushIncompatible(acc,
                apply_matchspecs(acc.relations, order[i],
                                 SetToSeq(relevant_matchspecs[order[i]])),
                package_name),
            package_name, relevant_matchspecs, order, i + 1)

\* The order in which a HashSet is iterated: the model takes one order or
\* its reverse.
Reverse(s) == [k \in 1..Len(s) |-> s[Len(s) + 1 - k]]
InOrder(s, reverse) == IF reverse THEN Reverse(s) ELSE s
HashOrder(S, reverse) == InOrder(SetToSeq(S), reverse)

\* apply_must_compatible(package_name), called with calls still on the call
\* stack: each entry of stack is the name and the removed bitmap one of them
\* was entered with.  acc is the engine and the logs pushed so far.  A call
\* entered with the name and the bitmap of a call that is still running
\* repeats that call's steps and so calls itself again without end: the
\* recursion exhausts the stack, which ends the process (overflow).
Frame(acc, package_name) ==
    [package_name |-> package_name, removed |-> acc.relations.removed]

RECURSIVE MustCompatibleCall(_, _, _, _)
RECURSIVE MustCompatibleRecurse(_, _, _, _, _)
MustCompatibleRecurse(acc, order, i, stack, reverse) ==
    IF i > Len(order) \/ acc.overflow THEN acc
    ELSE MustCompatibleRecurse(
            MustCompatibleCall(acc, order[i], stack, reverse),
            order, i + 1, stack, reverse)

\* The two loops in the other order: the recursion into the common names
\* before their providers are filtered.
MustCompatibleLoopsRecursingFirst(acc, package_name, stack, reverse, relevant_matchspecs, order) ==
    MustCompatibleFilter(
        MustCompatibleRecurse(acc, order, 1, stack \cup {Frame(acc, package_name)},
                              reverse),
        package_name, relevant_matchspecs, order, 1)

MustCompatibleLoops(acc, package_name, stack, reverse, relevant_matchspecs, order) ==
    MustCompatibleRecurse(
        MustCompatibleFilter(acc, package_name, relevant_matchspecs, order, 1),
        order, 1, stack \cup {Frame(acc, package_name)}, reverse)

MustCompatibleScanned(acc, package_name, stack, reverse, scan) ==
    MustCompatibleLoops(acc, package_name, stack, reverse,
                        scan.relevant_matchspecs,
                        HashOrder(scan.relevant_packages, reverse))

MustCompatibleFrom(acc, package_name, stack, reverse, range) ==
    IF range = <<>> THEN acc
    ELSE IF Frame(acc, package_name) \in stack THEN [acc EXCEPT !.overflow = TRUE]
    ELSE MustCompatibleScanned(acc, package_name, stack, reverse,
                               MustCompatibleScan(acc.relations, range))

MustCompatibleCall(acc, package_name, stack, reverse) ==
    MustCompatibleFrom(acc, package_name, stack, reverse,
                       SurvivingRange(acc.relations, package_name))

apply_must_compatible(rel, package_name, reverse) ==
    MustCompatibleCall([relations |-> rel, result |-> <<>>, overflow |-> FALSE],
                       package_name, {}, reverse)

(***************************************************************************)
(* matchspeccache.rs: the interning cache.  A Cache value is the arena     *)
(* (the values allocated so far, in order) and the lookup map; a &'b T is  *)
(* the position of the value in the arena, so two references are           *)
(* pointer-equal iff they are the same position.  A Result is Ok(ref) as   *)
(* <<ref>> and Err as <<>>.                                                *)
(***************************************************************************)

\* Cache::with_capacity: nothing allocated, nothing looked up.
with_capacity == [arena |-> <<>>, lookup |-> <<>>]

\* The read path: reader.get(key).
ReadPath(cache, key) ==
    IF key \in DOMAIN cache.lookup THEN <<cache.lookup[key]>> ELSE <<>>

\* arena.alloc(res) and e.insert(the_ref): the value goes to the end of the
\* arena and the key maps to its position.
Allocated(cache, key, res) ==
    [cache |-> [arena |-> Append(cache.arena, res),
                lookup |-> MapPut(cache.lookup, key, Len(cache.arena) + 1)],
     ret |-> <<Len(cache.arena) + 1>>]

\* A variant of the write path that takes the entry for vacant without
\* looking.
WritePathVacant(cache, key) ==
    IF ParsesAsMatchSpec(key)
    THEN Allocated(cache, key, from_str(key))
    ELSE [cache |-> cache, ret |-> <<>>]

\* The write path: match lookup.entry(key) { Occupied => Ok(e.get()),
\* Vacant => T::from_str(key), allocated and inserted if Ok }.
WritePath(cache, key) ==
    IF key \in DOMAIN cache.lookup
    THEN [cache |-> cache, ret |-> <<cache.lookup[key]>>]
    ELSE IF ParsesAsMatchSpec(key)
    THEN Allocated(cache, key, from_str(key))
    ELSE [cache |-> cache, ret |-> <<>>]

\* get_or_insert(key) run by one caller from call to return.
get_or_insert(cache, key) ==
    IF ReadPath(cache, key) # <<>>
    THEN [cache |-> cache, ret |-> ReadPath(cache, key)]
    ELSE WritePath(cache, key)

\* insert's use of the cache: get_or_insert(dependency_spec) for every
\* clause of the record's depends.
RECURSIVE InternDepends(_, _, _)
InternDepends(cache, depends, i) ==
    IF i > Len(depends) THEN cache
    ELSE InternDepends(
            get_or_insert(cache, dependsstr_to_name_and_spec(depends[i])[2]).cache,
            depends, i + 1)

(***************************************************************************)
(* Inputs: small channels.  A channel is the noarch RepoData and one        *)
(* RepoData per architecture; filenames follow name-version-build.ext.     *)
(***************************************************************************)

V2(a, b) == <<Num(a), Num(b)>>

RepoData(packages, conda_packages) ==
    [packages |-> packages, conda_packages |-> conda_packages]

\* Scenarios S1 and S3: user constraints on py and the cascade they start;
\* ghost is a dependency name without records.
CascadeChannel ==
    [noarch |-> RepoData(
        {Entry("tool-1-0.tar.bz2",
               PackageRecord("tool", <<Num(1)>>, "0", 0, <<>>, <<>>, <<"app">>))},
        {Entry("app-1-0.conda",
               PackageRecord("app", <<Num(1)>>, "0", 0, <<>>, <<>>, <<"py 3.10.*">>)),
         Entry("app-2-0.conda",
               PackageRecord("app", <<Num(2)>>, "0", 0, <<>>, <<>>,
                             <<"py >=3.11", "ghost >=2">>))}),
     arches |->
        [a \in {"linux-64", "win-64"} |->
            IF a = "linux-64"
            THEN RepoData({},
                {Entry("py-3.10-0.conda",
                       PackageRecord("py", V2(3, 10), "0", 0, <<>>, <<>>, <<>>)),
                 Entry("py-3.11-0.conda",
                       PackageRecord("py", V2(3, 11), "0", 0, <<>>, <<>>, <<>>)),
                 Entry("py-3.12-0.conda",
                       PackageRecord("py", V2(3, 12), "0", 0, <<>>, <<>>, <<>>))})
            ELSE RepoData({},
                {Entry("py-3.12-0.conda",
                       PackageRecord("py", V2(3, 12), "0", 0, <<>>, <<>>, <<>>))})]]

\* Scenarios S2 and S6: build variants (among them build numbers 9 and 10,
\* whose filenames sort the other way, and one build shipped in both
\* archive formats), feature tags, dev and rc versions.
BuildsChannel ==
    [noarch |-> RepoData({},
        {Entry("numpy-1-pypy_0.conda",
               PackageRecord("numpy", <<Num(1)>>, "pypy_0", 0, <<"pypy">>, <<>>, <<>>)),
         Entry("numpy-2-0.conda",
               PackageRecord("numpy", <<Num(2)>>, "0", 0, <<>>, <<"debug", "pypy">>, <<>>)),
         Entry("pre-1.0rc1-0.conda",
               PackageRecord("pre", <<Num(1), Num(0), Iden("rc"), Num(1)>>, "0", 0,
                             <<>>, <<>>, <<>>)),
         Entry("pre-1.0dev-0.conda",
               PackageRecord("pre", <<Num(1), Num(0), Dev>>, "0", 0, <<>>, <<>>, <<>>))}),
     arches |->
        [a \in {"linux-64"} |->
            RepoData(
                {Entry("lib-2.0-py_3.tar.bz2",
                       PackageRecord("lib", V2(2, 0), "py_3", 3, <<>>, <<>>, <<>>)),
                 Entry("lib-2.0-h0123456_2.tar.bz2",
                       PackageRecord("lib", V2(2, 0), "h0123456_2", 2, <<>>, <<>>, <<>>))},
                {Entry("lib-1.0-h0123456_9.conda",
                       PackageRecord("lib", V2(1, 0), "h0123456_9", 9, <<>>, <<>>, <<>>)),
                 Entry("lib-1.0-h0123456_10.conda",
                       PackageRecord("lib", V2(1, 0), "h0123456_10", 10, <<>>, <<>>, <<>>)),
                 Entry("lib-2.0-h0123456_0.conda",
                       PackageRecord("lib", V2(2, 0), "h0123456_0", 0, <<>>, <<>>, <<>>)),
                 Entry("lib-2.0-h0123456_1.conda",
                       PackageRecord("lib", V2(2, 0), "h0123456_1", 1, <<>>, <<>>, <<>>)),
                 Entry("lib-2.0-h0123456_2.conda",
                       PackageRecord("lib", V2(2, 0), "h0123456_2", 2, <<>>, <<>>, <<>>))})]]

\* Scenario S5: variants of py pinning libc, a depender that disagrees with
\* both, and cyclic dependencies (a <-> b, s -> s).
CompatChannel ==
    [noarch |-> RepoData({},
        {Entry("widget-1-0.conda",
               PackageRecord("widget", <<Num(1)>>, "0", 0, <<>>, <<>>, <<"libc 2.0">>)),
         Entry("a-1-0.conda",
               PackageRecord("a", <<Num(1)>>, "0", 0, <<>>, <<>>, <<"b">>)),
         Entry("b-1-0.conda",
               PackageRecord("b", <<Num(1)>>, "0", 0, <<>>, <<>>, <<"a">>)),
         Entry("s-1-0.conda",
               PackageRecord("s", <<Num(1)>>, "0", 0, <<>>, <<>>, <<"s">>))}),
     arches |->
        [a \in {"linux-64"} |->
            RepoData({},
                {Entry("py-3.10-0.conda",
                       PackageRecord("py", V2(3, 10), "0", 0, <<>>, <<>>, <<"libc 2.17">>)),
                 Entry("py-3.11-0.conda",
                       PackageRecord("py", V2(3, 11), "0", 0, <<>>, <<>>, <<"libc 2.28">>)),
                 Entry("libc-2.0-0.conda",
                       PackageRecord("libc", V2(2, 0), "0", 0, <<>>, <<>>, <<>>)),
                 Entry("libc-2.17-0.conda",
                       PackageRecord("libc", V2(2, 17), "0", 0, <<>>, <<>>, <<>>)),
                 Entry("libc-2.28-0.conda",
                       PackageRecord("libc", V2(2, 28), "0", 0, <<>>, <<>>, <<>>))})]]

\* Scenario S4: dependencies on virtual packages.
VirtualChannel ==
    [noarch |-> RepoData({},
        {Entry("qux-1-0.conda",
               PackageRecord("qux", <<Num(1)>>, "0", 0, <<>>, <<>>, <<"foo">>))}),
     arches |->
        [a \in {"linux-64"} |->
            RepoData({},
                {Entry("foo-1-0.conda",
                       PackageRecord("foo", <<Num(1)>>, "0", 0, <<>>, <<>>, <<"__win">>)),
                 Entry("bar-1-0.conda",
                       PackageRecord("bar", <<Num(1)>>, "0", 0, <<>>, <<>>,
                                     <<"__linux", "__glibc >=2.17">>)),
                 Entry("baz-1-0.conda",
                       PackageRecord("baz", <<Num(1)>>, "0", 0, <<>>, <<>>,
                                     <<"__glibc">>))})]]

\* A root whose variants carry two clauses on the same name, one of them
\* shared.
PinsChannel ==
    [noarch |-> RepoData({}, {}),
     arches |->
        [a \in {"linux-64"} |->
            RepoData({},
                {Entry("kit-1-0.conda",
                       PackageRecord("kit", <<Num(1)>>, "0", 0, <<>>, <<>>,
                                     <<"libc 2.0", "libc >=2.28">>)),
                 Entry("kit-2-0.conda",
                       PackageRecord("kit", <<Num(2)>>, "0", 0, <<>>, <<>>,
                                     <<"libc 2.17", "libc >=2.28">>)),
                 Entry("libc-2.0-0.conda",
                       PackageRecord("libc", V2(2, 0), "0", 0, <<>>, <<>>, <<>>)),
                 Entry("libc-2.17-0.conda",
                       PackageRecord("libc", V2(2, 17), "0", 0, <<>>, <<>>, <<>>)),
                 Entry("libc-2.28-0.conda",
                       PackageRecord("libc", V2(2, 28), "0", 0, <<>>, <<>>, <<>>))})]]

\* A root over two layers: side narrows mid, whose remaining variant narrows
\* base.
LayersChannel ==
    [noarch |-> RepoData({}, {}),
     arches |->
        [a \in {"linux-64"} |->
            RepoData({},
                {Entry("top-1-0.conda",
                       PackageRecord("top", <<Num(1)>>, "0", 0, <<>>, <<>>,
                                     <<"mid", "side">>)),
                 Entry("mid-1-0.conda",
                       PackageRecord("mid", <<Num(1)>>, "0", 0, <<>>, <<>>, <<>>)),
                 Entry("mid-2-0.conda",
                       PackageRecord("mid", <<Num(2)>>, "0", 0, <<>>, <<>>,
                                     <<"base 2">>)),
                 Entry("side-1-0.conda",
                       PackageRecord("side", <<Num(1)>>, "0", 0, <<>>, <<>>,
                                     <<"mid >=2">>)),
                 Entry("base-1-0.conda",
                       PackageRecord("base", <<Num(1)>>, "0", 0, <<>>, <<>>, <<>>)),
                 Entry("base-2-0.conda",
                       PackageRecord("base", <<Num(2)>>, "0", 0, <<>>, <<>>, <<>>))})]]

\* An index file with a dependency clause that does not parse (linux-64)
\* next to one without (win-64).
BrokenChannel ==
    [noarch |-> RepoData({}, {}),
     arches |->
        [a \in {"linux-64", "win-64"} |->
            IF a = "linux-64"
            THEN RepoData({},
                    {Entry("alpha-1-0.conda",
                           PackageRecord("alpha", <<Num(1)>>, "0", 0, <<>>, <<>>, <<>>)),
                     Entry("zed-1-0.conda",
                           PackageRecord("zed", <<Num(1)>>, "0", 0, <<>>, <<>>,
                                         <<"alpha", "alpha =>1">>))})
            ELSE RepoData({},
                    {Entry("omega-1-0.conda",
                           PackageRecord("omega", <<Num(1)>>, "0", 0, <<>>, <<>>, <<>>)),
                     Entry("omega-2-0.conda",
                           PackageRecord("omega", <<Num(2)>>, "0", 0, <<>>, <<>>,
                                         <<"ghost">>))})]]

Channels ==
    [c \in {"cascade", "builds", "compat", "virtual", "pins", "layers", "broken"} |->
        CASE c = "cascade" -> CascadeChannel
          [] c = "builds" -> BuildsChannel
          [] c = "compat" -> CompatChannel
          [] c = "virtual" -> VirtualChannel
          [] c = "pins" -> PinsChannel
          [] c = "layers" -> LayersChannel
          [] c = "broken" -> BrokenChannel]

\* The arguments the passes are called with.
ParseAll(strings) == [k \in 1..Len(strings) |-> from_str(strings[k])]

UserMatchspecChoices ==
    {[n \in {"py"} |-> ParseAll(<<">=3.11,<3.12">>)],
     [n \in {"py", "libc"} |->
        IF n = "py" THEN ParseAll(<<">=3.11">>) ELSE ParseAll(<<"2.0", ">=2.28">>)],
     [n \in {"lib", "foo"} |->
        IF n = "lib" THEN ParseAll(<<"1">>) ELSE ParseAll(<<>>)]}

FeatureChoices == {{}, {"pypy"}}

ArchitectureChoices ==
    {"linux-64", "linux", "win-64", "osx-arm64", "freebsd-64", "zos-z"}

\* Every channel ships linux-64; the cascade and the broken channel also
\* ship win-64.
ArchitectureLists ==
    [c \in DOMAIN Channels |->
        IF c = "cascade" THEN {<<"linux-64">>, <<"linux-64", "win-64">>}
        ELSE IF c = "broken" THEN {<<"linux-64", "win-64">>, <<"win-64", "linux-64">>}
        ELSE {<<"linux-64">>}]

\* The driver's arguments: the matchspecs file, -F, --keep-dev / --keep-rc
\* (given together or not at all) and -C.
NoUserMatchspecs == <<>>

\* The user-constraints file: package name -> constraint strings.  The last
\* choice has a value that does not parse.
MatchspecsYamlChoices ==
    {NoUserMatchspecs,
     [n \in {"py"} |-> <<">=3.11,<3.12">>],
     [n \in {"py", "libc"} |-> IF n = "py" THEN <<">=3.11">> ELSE <<"2.0", ">=2.28">>],
     [n \in {"lib", "foo"} |-> IF n = "lib" THEN <<"1">> ELSE <<>>],
     [n \in {"py", "libc"} |-> IF n = "py" THEN <<">=3.11">> ELSE <<"2.0", "=>2.28">>]}

\* get_user_matchspecs(path): every value of the file is parsed on its own;
\* Ok(name -> parsed constraints), or Err as soon as one value does not
\* parse.
get_user_matchspecs(yaml) ==
    IF \E n \in DOMAIN yaml : \E k \in 1..Len(yaml[n]) : ~ParsesAsMatchSpec(yaml[n][k])
    THEN <<>>
    ELSE <<[n \in DOMAIN yaml |-> ParseAll(yaml[n])]>>

MustCompatibleChoices == {<<>>, <<"py">>, <<"tool", "a">>}

(***************************************************************************)
(* The state.  The engine specification Spec fills one relations value by  *)
(* insert in sorted order and then calls the filtering passes in any       *)
(* order.  The driver specification DriverSpec runs main: filter_repodata  *)
(* for every architecture, then the noarch output.                         *)
(***************************************************************************)

VARIABLES
    relations,  \* the PackageRelations value
    pending,    \* the entries sorted_iter produced that are not inserted yet
    pc,         \* where the program is: "inserting", "idle" (between passes),
                \* "overflow" (apply_must_compatible exhausted the call
                \* stack), "panicked" (an expect failed), or the driver's
                \* position
    call,       \* the last pass called: [op, arg]
    before,     \* relations as they were when that pass was called
    result,     \* the logs that pass returned
    repeated,   \* the call before it was the same pass with the same argument
    earlier,    \* if repeated: relations as they were before that first call
    args,       \* main: the arguments of the run
    arch_todo,  \* main: the architectures not filtered yet
    removed_filenames,   \* filter_repodata: the filenames logged so far
    next_round,          \* filter_repodata: names for the next unresolveable()
    this_round,          \* unresolveable: its local next_round
    round,               \* unresolveable: its round counter
    must_todo,           \* filter_repodata: --must-compatible-with names left
    passes_run,          \* the passes filter_repodata has called, in order
    removed_by_arch,     \* what filter_repodata returned, per architecture
    common_filtered_fns, \* main: the value reduce has accumulated
    outputs,             \* the repodata.json written, per subdir: its filenames
    user_matchspecs,     \* main: the parsed user constraints
    fetched,             \* main: fetch_repodata has run
    matchspec_cache,     \* the MatchspecCache: [arena, lookup]
    lock,                \* its RwLock: the readers and the writer holding it
    callers,             \* the get_or_insert call of each concurrent caller
    returned             \* the (key, reference) pairs get_or_insert returned

engine == <<relations, pending, call, before, result, repeated, earlier>>
driver == <<args, arch_todo, removed_filenames, next_round, this_round, round, must_todo,
            passes_run, removed_by_arch, common_filtered_fns, outputs,
            user_matchspecs, fetched>>
interning == <<lock, callers, returned>>
\* What filter_repodata and the passes it calls leave alone.
settled == <<user_matchspecs, fetched, lock, callers, returned>>
vars == <<relations, pending, pc, call, before, result, repeated, earlier,
          args, arch_todo, removed_filenames, next_round, this_round, round, must_todo,
          passes_run, removed_by_arch, common_filtered_fns, outputs,
          user_matchspecs, fetched, matchspec_cache, lock, callers, returned>>

\* The most candidate names one find_unresolveables call is given.
MaxCandidates == 2

NoCall == [op |-> "new", arg |-> <<>>]

NoRun ==
    /\ args = <<>>
    /\ arch_todo = <<>>
    /\ removed_filenames = {}
    /\ next_round = {}
    /\ this_round = {}
    /\ round = 0
    /\ must_todo = <<>>
    /\ passes_run = <<>>
    /\ removed_by_arch = <<>>
    /\ common_filtered_fns = {}
    /\ outputs = <<>>
    /\ user_matchspecs = <<>>
    /\ fetched = FALSE

\* The number of concurrent callers of get_or_insert.
Callers == 2

\* No caller is in get_or_insert and nobody holds the lock.
Unlocked == [readers |-> {}, writer |-> <<>>]

NoCallers ==
    /\ lock = Unlocked
    /\ callers = [t \in 1..Callers |-> [pc |-> "idle", key |-> ""]]
    /\ returned = {}

Init ==
    /\ \E c \in DOMAIN Channels :
          pending = sorted_iter(<<Channels[c].arches["linux-64"], Channels[c].noarch>>)
    /\ relations = new
    /\ pc = "inserting"
    /\ call = NoCall
    /\ before = new
    /\ result = <<>>
    /\ repeated = FALSE
    /\ earlier = new
    /\ NoRun
    /\ matchspec_cache = with_capacity
    /\ NoCallers

\* relations.insert(matchspec_cache, filename, record) for the next entry;
\* a clause that does not parse ends the process, and the engine with it.
Insert ==
    /\ pc = "inserting"
    /\ pending # <<>>
    /\ IF InsertPanics(Head(pending).package_record)
       THEN /\ pc' = "panicked"
            /\ UNCHANGED <<relations, pending, matchspec_cache>>
       ELSE /\ relations' = insert(relations, Head(pending).filename,
                                   Head(pending).package_record)
            /\ pending' = Tail(pending)
            /\ matchspec_cache' = InternDepends(matchspec_cache,
                                                Head(pending).package_record.depends, 1)
            /\ pc' = IF Tail(pending) = <<>> THEN "idle" ELSE "inserting"
    /\ UNCHANGED <<call, before, result, repeated, earlier>>
    /\ UNCHANGED driver
    /\ UNCHANGED interning

\* What is remembered of a call of pass op with argument arg.
Called(op, arg) ==
    /\ before' = relations
    /\ call' = [op |-> op, arg |-> arg]
    /\ repeated' = (call = [op |-> op, arg |-> arg])
    /\ earlier' = IF call = [op |-> op, arg |-> arg] THEN before ELSE new
    /\ UNCHANGED pending
    /\ UNCHANGED driver
    /\ UNCHANGED matchspec_cache
    /\ UNCHANGED interning

\* A pass that was called with arg and returned out.
Returns(op, arg, out) ==
    /\ relations' = out.relations
    /\ result' = out.result
    /\ UNCHANGED pc
    /\ Called(op, arg)

ApplyUserMatchspecs ==
    /\ pc = "idle"
    /\ \E m \in UserMatchspecChoices :
          Returns("apply_user_matchspecs", m, apply_user_matchspecs(relations, m))

ApplyBuildPrune ==
    /\ pc = "idle"
    /\ Returns("apply_build_prune", <<>>, apply_build_prune(relations))

ApplyFeatureRemoval ==
    /\ pc = "idle"
    /\ \E f \in FeatureChoices :
          Returns("apply_feature_removal", f, apply_feature_removal(relations, f))

ApplyDevRcBan ==
    /\ pc = "idle"
    /\ \E ban_dev \in BOOLEAN, ban_rc \in BOOLEAN :
          Returns("apply_dev_rc_ban", <<ban_dev, ban_rc>>,
                  apply_dev_rc_ban(relations, ban_dev, ban_rc))

ApplyIncompatibleArchitecture ==
    /\ pc = "idle"
    /\ \E a \in ArchitectureChoices :
          Returns("apply_incompatible_architecture", a,
                  apply_incompatible_architecture(relations, a))

FindUnresolveables ==
    /\ pc = "idle"
    /\ \E c \in SUBSET (DOMAIN relations.package_dependencies) :
          /\ Cardinality(c) <= MaxCandidates
          /\ Returns("find_unresolveables", c,
                     find_unresolveables(relations, SetToSeq(c)))

\* apply_must_compatible either returns or exhausts the call stack, which
\* ends the process with the engine as the recursion left it.
ReturnsOrOverflows(op, arg, out) ==
    /\ relations' = out.relations
    /\ result' = out.result
    /\ pc' = IF out.overflow THEN "overflow" ELSE pc
    /\ Called(op, arg)

ApplyMustCompatible ==
    /\ pc = "idle"
    /\ \E package_name \in DOMAIN relations.package_name_to_providers,
          reverse \in BOOLEAN :
          ReturnsOrOverflows("apply_must_compatible", package_name,
                             apply_must_compatible(relations, package_name, reverse))

Next ==
    \/ Insert
    \/ ApplyUserMatchspecs
    \/ ApplyBuildPrune
    \/ ApplyFeatureRemoval
    \/ ApplyDevRcBan
    \/ ApplyIncompatibleArchitecture
    \/ FindUnresolveables
    \/ ApplyMustCompatible

Spec == Init /\ [][Next]_vars

(***************************************************************************)
(* main.rs: the driver.                                                    *)
(***************************************************************************)

DriverInit ==
    /\ \E c \in DOMAIN Channels :
       \E architectures \in ArchitectureLists[c] :
       \E y \in MatchspecsYamlChoices :
       \E f \in FeatureChoices :
       \E keep \in BOOLEAN :
       \E must_compatible \in MustCompatibleChoices :
          args = [channel |-> c,
                  architectures |-> architectures,
                  matchspecs_yaml |-> y,
                  ban_features |-> f,
                  ban_dev |-> ~keep,
                  ban_rc |-> ~keep,
                  must_compatible |-> must_compatible]
    /\ arch_todo = args.architectures
    /\ pc = "start"
    /\ relations = new
    /\ pending = <<>>
    /\ call = NoCall
    /\ before = new
    /\ result = <<>>
    /\ repeated = FALSE
    /\ earlier = new
    /\ removed_filenames = {}
    /\ next_round = {}
    /\ this_round = {}
    /\ round = 0
    /\ must_todo = <<>>
    /\ passes_run = <<>>
    /\ removed_by_arch = <<>>
    /\ common_filtered_fns = {}
    /\ outputs = <<>>
    /\ user_matchspecs = <<>>
    /\ fetched = FALSE
    /\ matchspec_cache = with_capacity
    /\ NoCallers

repodata_noarch == Channels[args.channel].noarch
repodata_arch == Channels[args.channel].arches[Head(arch_todo)]

\* The insert loop of filter_repodata.
RECURSIVE InsertAll(_, _, _)
InsertAll(rel, entries, i) ==
    IF i > Len(entries) THEN rel
    ELSE InsertAll(insert(rel, entries[i].filename, entries[i].package_record),
                   entries, i + 1)

\* What that loop does to the cache it passes to insert.
RECURSIVE InternAll(_, _, _)
InternAll(cache, entries, i) ==
    IF i > Len(entries) THEN cache
    ELSE InternAll(InternDepends(cache, entries[i].package_record.depends, 1),
                   entries, i + 1)

\* The loops over a pass's logs: removed_filenames.insert(log_entry.filename)
\* and next_round.insert(log_entry.package_name).
LoggedFilenames(logs) == {logs[k].filename : k \in 1..Len(logs)}
LoggedNames(logs) == {logs[k].package_name : k \in 1..Len(logs)}

\* What main leaves alone before its loop over the architectures.
unstarted == <<arch_todo, removed_filenames, next_round, this_round, round, must_todo,
               passes_run, removed_by_arch, common_filtered_fns, outputs>>

\* A variant of main that fetches the index files before it loads the user
\* constraints.
MainFetchingFirst ==
    /\ pc = "start"
    /\ fetched' = TRUE
    /\ IF get_user_matchspecs(args.matchspecs_yaml) = <<>>
       THEN pc' = "panicked" /\ UNCHANGED user_matchspecs
       ELSE /\ user_matchspecs' = get_user_matchspecs(args.matchspecs_yaml)[1]
            /\ pc' = "main"
    /\ UNCHANGED <<args, matchspec_cache>>
    /\ UNCHANGED unstarted
    /\ UNCHANGED engine
    /\ UNCHANGED interning

\* main up to its loop: get_user_matchspecs(..).expect(..) panics on Err, and
\* the process exits with a non-zero code; otherwise the cache is made,
\* fetch_repodata runs and the index files are loaded.
Main ==
    /\ pc = "start"
    /\ IF get_user_matchspecs(args.matchspecs_yaml) = <<>>
       THEN pc' = "panicked" /\ UNCHANGED <<user_matchspecs, fetched>>
       ELSE /\ user_matchspecs' = get_user_matchspecs(args.matchspecs_yaml)[1]
            /\ fetched' = TRUE
            /\ pc' = "main"
    /\ UNCHANGED <<args, matchspec_cache>>
    /\ UNCHANGED unstarted
    /\ UNCHANGED engine
    /\ UNCHANGED interning

\* Some insert of the loop panics.
AnyInsertPanics(entries) ==
    \E i \in 1..Len(entries) : InsertPanics(entries[i].package_record)

\* filter_repodata up to its first pass: a fresh engine, filled in sorted
\* order.  An insert that panics ends the process where it is: what main
\* has written so far stays written.
FilterRepodata ==
    /\ pc = "main"
    /\ arch_todo # <<>>
    /\ IF AnyInsertPanics(sorted_iter(<<repodata_arch, repodata_noarch>>))
       THEN /\ pc' = "panicked"
            /\ UNCHANGED <<relations, matchspec_cache, removed_filenames, next_round,
                           this_round, round, must_todo, passes_run>>
       ELSE /\ relations' = InsertAll(new, sorted_iter(<<repodata_arch, repodata_noarch>>), 1)
            /\ matchspec_cache' = InternAll(matchspec_cache,
                                            sorted_iter(<<repodata_arch, repodata_noarch>>), 1)
            /\ removed_filenames' = {}
            /\ next_round' = {}
            /\ this_round' = {}
            /\ round' = 0
            /\ must_todo' = args.must_compatible
            /\ passes_run' = <<>>
            /\ pc' = "user_matchspecs"
    /\ UNCHANGED <<pending, call, before, result, repeated, earlier>>
    /\ UNCHANGED settled
    /\ UNCHANGED <<args, arch_todo, removed_by_arch, common_filtered_fns, outputs>>

\* A variant of the pass that keeps the names of the logs and drops their
\* filenames.
DriverPassNamesOnly(pass, out, names, then) ==
    /\ relations' = out.relations
    /\ removed_filenames' = removed_filenames
    /\ next_round' = next_round \cup names
    /\ passes_run' = Append(passes_run, pass)
    /\ pc' = then
    /\ UNCHANGED <<pending, call, before, result, repeated, earlier>>
    /\ UNCHANGED matchspec_cache
    /\ UNCHANGED settled
    /\ UNCHANGED <<args, arch_todo, this_round, round, removed_by_arch,
                   common_filtered_fns, outputs>>

\* A pass of filter_repodata: pass is its name, out what the engine
\* returned, names what goes into next_round, then the position after it.
DriverPass(pass, out, names, then) ==
    /\ relations' = out.relations
    /\ removed_filenames' = removed_filenames \cup LoggedFilenames(out.result)
    /\ next_round' = next_round \cup names
    /\ passes_run' = Append(passes_run, pass)
    /\ pc' = then
    /\ UNCHANGED <<pending, call, before, result, repeated, earlier>>
    /\ UNCHANGED matchspec_cache
    /\ UNCHANGED settled
    /\ UNCHANGED <<args, arch_todo, this_round, round, removed_by_arch,
                   common_filtered_fns, outputs>>

\* next_round.insert(log_entry.package_name) for each log of a pass.
DriverLoggedPass(pass, out, then) ==
    DriverPass(pass, out, LoggedNames(out.result), then)

\* The loop over user_matchspecs: every package name goes into next_round.
DriverUserMatchspecPass ==
    /\ pc = "user_matchspecs"
    /\ DriverPass("apply_matchspecs",
                  apply_user_matchspecs(relations, user_matchspecs),
                  DOMAIN user_matchspecs, "build_prune")
    /\ UNCHANGED must_todo

DriverBuildPrune ==
    /\ pc = "build_prune"
    /\ DriverLoggedPass("apply_build_prune", apply_build_prune(relations),
                        "feature_removal")
    /\ UNCHANGED must_todo

DriverFeatureRemoval ==
    /\ pc = "feature_removal"
    /\ DriverLoggedPass("apply_feature_removal",
                        apply_feature_removal(relations, args.ban_features),
                        "dev_rc_ban")
    /\ UNCHANGED must_todo

DriverDevRcBan ==
    /\ pc = "dev_rc_ban"
    /\ DriverLoggedPass("apply_dev_rc_ban",
                        apply_dev_rc_ban(relations, args.ban_dev, args.ban_rc),
                        "call_unresolveable")
    /\ UNCHANGED must_todo

\* unresolveable(relations, removed_filenames, &next_round, explain) is
\* called: its own next_round starts as a clone of the test set.
Unresolveable ==
    /\ pc = "call_unresolveable"
    /\ this_round' = next_round
    /\ round' = 0
    /\ passes_run' = Append(passes_run, "unresolveable")
    /\ pc' = "unresolveable"
    /\ UNCHANGED engine
    /\ UNCHANGED matchspec_cache
    /\ UNCHANGED settled
    /\ UNCHANGED <<args, arch_todo, removed_filenames, next_round, must_todo,
                   removed_by_arch, common_filtered_fns, outputs>>

\* A variant of the round that hands no names to a next round.
RoundOfOnce(out) ==
    /\ relations' = out.relations
    /\ removed_filenames' = removed_filenames \cup LoggedFilenames(out.result)
    /\ this_round' = {}
    /\ round' = round + 1

\* One round of its loop: find_unresolveables on the names of this round;
\* the names of the records it logged make the next round.
RoundOf(out) ==
    /\ relations' = out.relations
    /\ removed_filenames' = removed_filenames \cup LoggedFilenames(out.result)
    /\ this_round' = LoggedNames(out.result)
    /\ round' = round + 1

UnresolveableRound ==
    /\ pc = "unresolveable"
    /\ this_round # {}
    /\ RoundOf(find_unresolveables(relations, SetToSeq(this_round)))
    /\ UNCHANGED <<pending, call, before, result, repeated, earlier>>
    /\ UNCHANGED matchspec_cache
    /\ UNCHANGED settled
    /\ UNCHANGED <<pc, args, arch_todo, next_round, must_todo, passes_run,
                   removed_by_arch, common_filtered_fns, outputs>>

\* The loop ends when a round logged nothing (or the test set was empty).
UnresolveableReturn ==
    /\ pc = "unresolveable"
    /\ this_round = {}
    /\ pc' = "must_compatible"
    /\ UNCHANGED engine
    /\ UNCHANGED matchspec_cache
    /\ UNCHANGED settled
    /\ UNCHANGED driver

\* The loop over args.must_compatible: the compat pass, then unresolveable.
MustCompatibleOf(out) ==
    IF out.overflow
    THEN /\ pc' = "overflow"
         /\ relations' = out.relations
         /\ UNCHANGED <<removed_filenames, next_round, passes_run>>
         /\ UNCHANGED <<pending, call, before, result, repeated, earlier>>
         /\ UNCHANGED matchspec_cache
         /\ UNCHANGED settled
         /\ UNCHANGED <<args, arch_todo, this_round, round, removed_by_arch,
                        common_filtered_fns, outputs>>
    ELSE DriverLoggedPass("apply_must_compatible", out, "call_unresolveable")

DriverMustCompatible ==
    /\ pc = "must_compatible"
    /\ must_todo # <<>>
    /\ must_todo' = Tail(must_todo)
    /\ \E reverse \in BOOLEAN :
          MustCompatibleOf(apply_must_compatible(relations, Head(must_todo), reverse))

\* The filenames of a RepoData.
Filenames(repodata) == {e.filename : e \in repodata.packages \cup repodata.conda_packages}

\* filtered_repodata_to_file(initial, .., predicate, subdir, ..): the entries
\* of initial whose filename the predicate keeps.
filtered_repodata_to_file(initial, removed) == Filenames(initial) \ removed

\* filter_repodata returns removed_filenames; main writes the architecture's
\* repodata.json and reduce folds the returned set into its accumulator with
\* left.extend(right).
FilterRepodataReturns ==
    /\ pc = "must_compatible"
    /\ must_todo = <<>>
    /\ outputs' = MapPut(outputs, Head(arch_todo),
                         filtered_repodata_to_file(repodata_arch, removed_filenames))
    /\ removed_by_arch' = MapPut(removed_by_arch, Head(arch_todo), removed_filenames)
    /\ common_filtered_fns' =
            IF removed_by_arch = <<>> THEN removed_filenames
            ELSE common_filtered_fns \cup removed_filenames
    /\ arch_todo' = Tail(arch_todo)
    /\ pc' = "main"
    /\ UNCHANGED engine
    /\ UNCHANGED matchspec_cache
    /\ UNCHANGED settled
    /\ UNCHANGED <<args, removed_filenames, next_round, this_round, round, must_todo,
                   passes_run>>

\* After the last architecture main writes the noarch repodata.json.
WriteNoarch ==
    /\ pc = "main"
    /\ arch_todo = <<>>
    /\ outputs' = MapPut(outputs, "noarch",
                         filtered_repodata_to_file(repodata_noarch, common_filtered_fns))
    /\ pc' = "done"
    /\ UNCHANGED engine
    /\ UNCHANGED matchspec_cache
    /\ UNCHANGED settled
    /\ UNCHANGED <<args, arch_todo, removed_filenames, next_round, this_round, round,
                   must_todo, passes_run, removed_by_arch, common_filtered_fns>>

DriverNext ==
    \/ Main
    \/ FilterRepodata
    \/ DriverUserMatchspecPass
    \/ DriverBuildPrune
    \/ DriverFeatureRemoval
    \/ DriverDevRcBan
    \/ Unresolveable
    \/ UnresolveableRound
    \/ UnresolveableReturn
    \/ DriverMustCompatible
    \/ FilterRepodataReturns
    \/ WriteNoarch

DriverSpec == DriverInit /\ [][DriverNext]_vars

(***************************************************************************)
(* matchspeccache.rs under concurrent callers: the specification CacheSpec *)
(* interleaves get_or_insert calls on one cache.  A caller takes the read  *)
(* lock, looks the key up and releases it; after a miss it takes the write *)
(* lock and runs the write path.  The RwLock admits readers while no       *)
(* writer holds it and a writer while nobody holds it.                     *)
(***************************************************************************)

\* unresolveable() is sequential code: once called, its loop takes its next
\* step.  Under DriverNext the steps that count a round are the steps of
\* UnresolveableRound and the steps that leave the loop are those of
\* UnresolveableReturn, each possible exactly when its loop condition holds;
\* the fairness conditions are stated on these two observations.
CountsRound ==
    /\ pc = "unresolveable"
    /\ this_round # {}
    /\ round' = round + 1

LeavesLoop ==
    /\ pc = "unresolveable"
    /\ this_round = {}
    /\ pc' = "must_compatible"

DriverLiveSpec ==
    /\ DriverSpec
    /\ WF_round(CountsRound)
    /\ WF_pc(LeavesLoop)

\* The keys the callers ask for; the last one does not parse.
CacheKeys == {"1", ">=2", "=>2.28"}

CacheInit ==
    /\ relations = new
    /\ pending = <<>>
    /\ pc = "idle"
    /\ call = NoCall
    /\ before = new
    /\ result = <<>>
    /\ repeated = FALSE
    /\ earlier = new
    /\ NoRun
    /\ matchspec_cache = with_capacity
    /\ NoCallers

\* Caller t moves to position to, holding key; the engine and the driver
\* are not running.
CallerAt(t, to, key) ==
    /\ callers' = [callers EXCEPT ![t] = [pc |-> to, key |-> key]]
    /\ UNCHANGED pc
    /\ UNCHANGED engine
    /\ UNCHANGED driver

\* get_or_insert(key) returned Ok(ref) or Err to caller t.
Returned(t, ret) ==
    returned' = IF ret = <<>> THEN returned
                ELSE returned \cup {[key |-> callers[t].key, ref |-> ret[1], caller |-> t]}

\* A caller calls get_or_insert(key).
GetOrInsert ==
    \E t \in 1..Callers, key \in CacheKeys :
        /\ callers[t].pc = "idle"
        /\ CallerAt(t, "read", key)
        /\ UNCHANGED <<matchspec_cache, lock, returned>>

\* self.lookup.read(): granted while no writer holds the lock.
LookupRead ==
    \E t \in 1..Callers :
        /\ callers[t].pc = "read"
        /\ lock.writer = <<>>
        /\ lock' = [lock EXCEPT !.readers = @ \cup {t}]
        /\ CallerAt(t, "reading", callers[t].key)
        /\ UNCHANGED <<matchspec_cache, returned>>

\* The read path: Some(val) returns Ok(val); either way the read guard is
\* dropped.
ReadPathEnds ==
    \E t \in 1..Callers :
        /\ callers[t].pc = "reading"
        /\ lock' = [lock EXCEPT !.readers = @ \ {t}]
        /\ Returned(t, ReadPath(matchspec_cache, callers[t].key))
        /\ IF ReadPath(matchspec_cache, callers[t].key) # <<>>
           THEN CallerAt(t, "idle", "")
           ELSE CallerAt(t, "write", callers[t].key)
        /\ UNCHANGED matchspec_cache

\* self.lookup.write(): granted while nobody holds the lock.
LookupWrite ==
    \E t \in 1..Callers :
        /\ callers[t].pc = "write"
        /\ lock = Unlocked
        /\ lock' = [lock EXCEPT !.writer = <<t>>]
        /\ CallerAt(t, "writing", callers[t].key)
        /\ UNCHANGED <<matchspec_cache, returned>>

\* The write path under the write guard, which is dropped on return.
WritePathOf(t, out) ==
    /\ matchspec_cache' = out.cache
    /\ Returned(t, out.ret)
    /\ lock' = Unlocked
    /\ CallerAt(t, "idle", "")

WritePathEnds ==
    \E t \in 1..Callers :
        /\ callers[t].pc = "writing"
        /\ WritePathOf(t, WritePath(matchspec_cache, callers[t].key))

CacheNext ==
    \/ GetOrInsert
    \/ LookupRead
    \/ ReadPathEnds
    \/ LookupWrite
    \/ WritePathEnds

CacheSpec == CacheInit /\ [][CacheNext]_vars

(***************************************************************************)
(* Properties.  before and relations are the engine when the last pass was *)
(* called and when it returned; call names the pass and its argument.      *)
(***************************************************************************)

(***************************************************************************)
(* insert as a public method: the specification InsertSpec lets a caller   *)
(* insert records in any order, not only in the order of sorted_iter.      *)
(***************************************************************************)

\* The most records a caller inserts.
MaxInserts == 3

\* The records a caller chooses from.
InsertChoices ==
    CascadeChannel.noarch.packages \cup CascadeChannel.noarch.conda_packages
        \cup CascadeChannel.arches["linux-64"].conda_packages

\* The sequences of at most n distinct entries.
RECURSIVE Orders(_, _)
Orders(entries, n) ==
    IF n = 0 THEN {<<>>}
    ELSE {<<>>} \cup UNION {{<<e>> \o s : s \in Orders(entries \ {e}, n - 1)} :
                            e \in entries}

InsertInit ==
    /\ pending \in Orders(InsertChoices, MaxInserts) \ {<<>>}
    /\ relations = new
    /\ pc = "inserting"
    /\ call = NoCall
    /\ before = new
    /\ result = <<>>
    /\ repeated = FALSE
    /\ earlier = new
    /\ NoRun
    /\ matchspec_cache = with_capacity
    /\ NoCallers

InsertNext == Insert

InsertSpec == InsertInit /\ [][InsertNext]_vars

Ids(rel) == 0..(Len(rel.package_metadatas) - 1)
RecordOf(rel, id) == At(rel.package_metadatas, id).package_record
FilenameOf(rel, id) == At(rel.package_metadatas, id).filename
Survives(rel, id) == ~At(rel.removed, id)
RangeIds(rel, name) == {mkrange(rel, name)[k] : k \in 1..Len(mkrange(rel, name))}
NewlyRemoved(from, to) == {id \in Ids(from) : Survives(from, id) /\ ~Survives(to, id)}

\* The (name, constraint string) pairs of a record's dependency clauses.
ClausesOf(rel, id) ==
    {dependsstr_to_name_and_spec(RecordOf(rel, id).depends[k]) :
        k \in 1..Len(RecordOf(rel, id).depends)}

ReturnedFrom(op) == call.op = op /\ pc = "idle"

\* C1. Monotone removal: whatever pass is called, in whatever order, a
\* removed bit that is true stays true; no step clears a bit.
C1_MonotoneRemoval ==
    [][\A k \in 1..Len(relations.removed) :
            relations.removed[k] => relations'.removed[k]]_vars

\* A pass has returned with a bit set that was already set when it was
\* called.
C1_Witness ==
    /\ call.op # "new"
    /\ \E id \in Ids(before) : ~Survives(before, id) /\ ~Survives(relations, id)

\* C2. Noarch intersection: when main is done, a noarch package is in the
\* noarch output iff at least one per-architecture run did not remove it.
C2_NoarchIntersection ==
    pc = "done" =>
        \A f \in Filenames(repodata_noarch) :
            f \in outputs["noarch"] <=>
                \E a \in DOMAIN removed_by_arch : f \notin removed_by_arch[a]

\* C3. Pass ordering: filter_repodata calls the passes in the order user
\* constraints, build prune, feature ban, dev/rc policy, incompatible
\* architecture, unresolveable, and then per must-compatible root the
\* compat pass and unresolveable; when it returns it has called them all.
RECURSIVE CompatPasses(_)
CompatPasses(roots) ==
    IF roots = <<>> THEN <<>>
    ELSE <<"apply_must_compatible", "unresolveable">> \o CompatPasses(Tail(roots))

PrescribedPasses ==
    <<"apply_matchspecs", "apply_build_prune", "apply_feature_removal",
      "apply_dev_rc_ban", "apply_incompatible_architecture", "unresolveable">>
        \o CompatPasses(args.must_compatible)

IsPrefix(s, t) == Len(s) <= Len(t) /\ SubSeq(t, 1, Len(s)) = s

C3_PassOrdering ==
    /\ IsPrefix(passes_run, PrescribedPasses)
    /\ (pc \in {"main", "done"} /\ removed_by_arch # <<>>) =>
            passes_run = PrescribedPasses

\* C4. Fixed point of a single invocation, as claimed: a second
\* find_unresolveables(C) right after the first returns no logs and sets no
\* bit.
C4_SecondCallRemovesNothing ==
    (ReturnedFrom("find_unresolveables") /\ repeated) =>
        result = <<>> /\ relations.removed = before.removed

\* The first of the two calls removed no record whose name is in C.
C4_FirstCallSparedCandidates ==
    \A id \in NewlyRemoved(earlier, before) : RecordOf(before, id).name \notin call.arg

\* C4, amended: a second find_unresolveables(C) right after the first
\* returns no logs and sets no bit, provided the first call removed no
\* record whose name is in C.
C4_SecondCallAmended ==
    (ReturnedFrom("find_unresolveables") /\ repeated /\ C4_FirstCallSparedCandidates) =>
        result = <<>> /\ relations.removed = before.removed

\* The second of two identical calls has returned, the first having removed
\* records, none of them named in C.
C4_Witness ==
    /\ ReturnedFrom("find_unresolveables")
    /\ repeated
    /\ C4_FirstCallSparedCandidates
    /\ NewlyRemoved(earlier, before) # {}

\* An edge that find_unresolveables must give up: not yet unsatisfiable, and
\* no surviving record of the dependency name's range matches it.
Unresolved(rel, name, spec) ==
    /\ ~rel.package_dependencies[name][spec].unsatisfiable
    /\ \A id \in RangeIds(rel, name) :
            Survives(rel, id) =>
                ~matches(rel.package_dependencies[name][spec].matchspec,
                         RecordOf(rel, id))

\* The filenames of the logs a call returned for one edge, in order.
LoggedFor(logs, name, matchspec) ==
    LET about(log) == log.kind = "RemovedUnsatisfiable"
                        /\ log.dependency_package_name = name
                        /\ log.matchspec = matchspec
        picked == SelectSeq(logs, about)
    IN [k \in 1..Len(picked) |-> picked[k].filename]

DependerFilenames(rel, name, spec) ==
    [k \in 1..Len(rel.package_dependencies[name][spec].dependers) |->
        FilenameOf(rel, rel.package_dependencies[name][spec].dependers[k])]

\* C5. Cascade completeness of one find_unresolveables(C) call: every edge
\* under a name of C that was unresolved when the call started (also when
\* the name has no records) is marked unsatisfiable, every depender of it is
\* removed, and the call logs one RemovedUnsatisfiable per depender.
C5_CascadeCompleteness ==
    ReturnedFrom("find_unresolveables") =>
        \A name \in call.arg \cap DOMAIN before.package_dependencies :
        \A spec \in DOMAIN before.package_dependencies[name] :
            Unresolved(before, name, spec) =>
                /\ relations.package_dependencies[name][spec].unsatisfiable
                /\ \A k \in 1..Len(before.package_dependencies[name][spec].dependers) :
                      ~Survives(relations,
                                before.package_dependencies[name][spec].dependers[k])
                /\ LoggedFor(result, name,
                             before.package_dependencies[name][spec].matchspec)
                     = DependerFilenames(before, name, spec)

\* One call gave up an edge on a name with records and an edge on a name
\* without any, each with a depender that was surviving.
C5_Witness ==
    /\ ReturnedFrom("find_unresolveables")
    /\ \E name \in call.arg \cap DOMAIN before.package_name_to_providers :
       \E spec \in DOMAIN before.package_dependencies[name] :
          /\ Unresolved(before, name, spec)
          /\ \E k \in 1..Len(before.package_dependencies[name][spec].dependers) :
                Survives(before, before.package_dependencies[name][spec].dependers[k])
    /\ \E name \in (call.arg \cap DOMAIN before.package_dependencies)
                        \ DOMAIN before.package_name_to_providers :
       \E spec \in DOMAIN before.package_dependencies[name] :
          /\ Unresolved(before, name, spec)
          /\ \E k \in 1..Len(before.package_dependencies[name][spec].dependers) :
                Survives(before, before.package_dependencies[name][spec].dependers[k])

\* The group of a pattern-matching record: the pattern-matching records with
\* its (name, version, stripped build).
GroupOf(rel, id) ==
    {other \in Ids(rel) :
        /\ MatchesPattern(At(rel.package_metadatas, other))
        /\ BuildPruneKey(At(rel.package_metadatas, other))
             = BuildPruneKey(At(rel.package_metadatas, id))}

\* C6. Build-prune keeps only the maximum: after apply_build_prune, in
\* every group of at least 2 every surviving member has the greatest
\* build_number of the group.
C6_BuildPruneKeepsOnlyMaximum ==
    ReturnedFrom("apply_build_prune") =>
        \A id \in Ids(relations) :
            (/\ MatchesPattern(At(relations.package_metadatas, id))
             /\ Cardinality(GroupOf(relations, id)) >= 2
             /\ Survives(relations, id)) =>
                \A other \in GroupOf(relations, id) :
                    RecordOf(relations, other).build_number
                        <= RecordOf(relations, id).build_number

BannedNames(architecture) ==
    {get_virtual_package_bans(architecture)[k] :
        k \in 1..Len(get_virtual_package_bans(architecture))}

\* C7. Arch ban completeness: after apply_incompatible_architecture(A) no
\* surviving record has a clause on a virtual name banned for A, and every
\* edge under a banned name is unsatisfiable.
C7_ArchBanCompleteness ==
    ReturnedFrom("apply_incompatible_architecture") =>
        /\ \A id \in Ids(relations) :
              Survives(relations, id) =>
                  \A clause \in ClausesOf(relations, id) :
                      clause[1] \notin BannedNames(call.arg)
        /\ \A name \in BannedNames(call.arg) \cap DOMAIN relations.package_dependencies :
           \A spec \in DOMAIN relations.package_dependencies[name] :
              relations.package_dependencies[name][spec].unsatisfiable

\* The pass removed a record for a clause on a banned name while another
\* record, with clauses on virtual names that are not banned, survives.
C7_Witness ==
    /\ ReturnedFrom("apply_incompatible_architecture")
    /\ \E id \in NewlyRemoved(before, relations) :
          \E clause \in ClausesOf(before, id) : clause[1] \in BannedNames(call.arg)
    /\ \E id \in Ids(relations) :
          Survives(relations, id) /\
          \E clause \in ClausesOf(relations, id) : StartsWith(clause[1], "__")

\* The variants of a root that survive, the names all of them depend on, and
\* the constraints they place on such a name.
SurvivingVariants(rel, root) == {id \in RangeIds(rel, root) : Survives(rel, id)}

CommonNames(rel, root) ==
    {name \in UNION {{clause[1] : clause \in ClausesOf(rel, id)} :
                        id \in SurvivingVariants(rel, root)} :
        \A id \in SurvivingVariants(rel, root) :
            \E clause \in ClausesOf(rel, id) : clause[1] = name}

ConstraintsOn(rel, root, name) ==
    {from_str(clause[2]) :
        clause \in {c \in UNION {ClausesOf(rel, id) : id \in SurvivingVariants(rel, root)} :
                        c[1] = name}}

\* Two constraints agree when one version satisfies both; the versions tried
\* are those of the channels' records.
ChannelVersions ==
    {e.package_record.version :
        e \in UNION {Channels[c].noarch.conda_packages \cup Channels[c].noarch.packages
                        \cup UNION {Channels[c].arches[a].conda_packages
                                        \cup Channels[c].arches[a].packages :
                                    a \in DOMAIN Channels[c].arches} :
                     c \in DOMAIN Channels}}

Agree(c, d) ==
    \E v \in ChannelVersions :
        matches(c, [version |-> v]) /\ matches(d, [version |-> v])

\* C8. Must-compatible removes disagreeing dependers, as claimed:
\* apply_must_compatible(R) removes every surviving package with a clause
\* on a name common to the surviving variants of R whose constraint agrees
\* with none of the constraints those variants place on the name.
C8_RemovesDisagreeingDependers ==
    ReturnedFrom("apply_must_compatible") =>
        \A id \in Ids(before) :
        \A clause \in ClausesOf(before, id) :
            (/\ Survives(before, id)
             /\ clause[1] \in CommonNames(before, call.arg)
             /\ \A d \in ConstraintsOn(before, call.arg, clause[1]) :
                    ~Agree(from_str(clause[2]), d)) =>
                ~Survives(relations, id)

\* C8, amended: apply_must_compatible(R) removes every surviving record
\* whose name is common to the surviving variants of R and that matches none
\* of the constraints those variants place on that name.
C8_RemovesUnmatchedProviders ==
    ReturnedFrom("apply_must_compatible") =>
        \A name \in CommonNames(before, call.arg) :
        \A id \in RangeIds(before, name) :
            (/\ Survives(before, id)
             /\ \A d \in ConstraintsOn(before, call.arg, name) :
                    ~matches(d, RecordOf(before, id))) =>
                ~Survives(relations, id)

\* The pass has removed such a record while another record of that name,
\* matching one of the constraints, survives.
C8_Witness ==
    /\ ReturnedFrom("apply_must_compatible")
    /\ \E name \in CommonNames(before, call.arg) :
          /\ \E id \in RangeIds(before, name) :
                /\ id \in NewlyRemoved(before, relations)
                /\ \A d \in ConstraintsOn(before, call.arg, name) :
                        ~matches(d, RecordOf(before, id))
          /\ \E id \in RangeIds(before, name) : Survives(relations, id)

\* C9. Must-compatible terminates: apply_must_compatible(R) returns for
\* every root, also when the common-dependency relation is cyclic; its
\* recursion never exhausts the call stack.
C9_MustCompatibleReturns ==
    call.op = "apply_must_compatible" => pc # "overflow"

\* C10. User-constraints pass result: after apply_user_matchspecs(M) a
\* record named in M survives iff it survived before and matches one of the
\* constraints of its name; every newly removed record has exactly one
\* RemovedByUser log; the bits of records not named in M are unchanged.
C10_UserConstraintsResult ==
    ReturnedFrom("apply_user_matchspecs") =>
        /\ \A id \in Ids(before) :
              IF RecordOf(before, id).name \in DOMAIN call.arg
              THEN Survives(relations, id) <=>
                      /\ Survives(before, id)
                      /\ \E k \in 1..Len(call.arg[RecordOf(before, id).name]) :
                            matches(call.arg[RecordOf(before, id).name][k],
                                    RecordOf(before, id))
              ELSE Survives(relations, id) <=> Survives(before, id)
        /\ \A id \in NewlyRemoved(before, relations) :
              Cardinality({k \in 1..Len(result) :
                              result[k].filename = FilenameOf(before, id)}) = 1
        /\ \A k \in 1..Len(result) :
              /\ result[k].kind = "RemovedByUser"
              /\ \E id \in NewlyRemoved(before, relations) :
                    /\ result[k].filename = FilenameOf(before, id)
                    /\ result[k].package_name = RecordOf(before, id).name

\* The pass has removed a record of a name with two constraints and kept
\* another one, while a record of a name M does not mention was removed
\* before and a record of such a name survives.
C10_Witness ==
    /\ ReturnedFrom("apply_user_matchspecs")
    /\ \E id \in NewlyRemoved(before, relations) :
          Len(call.arg[RecordOf(before, id).name]) = 2
    /\ \E id \in Ids(relations) :
          /\ RecordOf(relations, id).name \in DOMAIN call.arg
          /\ Survives(relations, id)
    /\ \E id \in Ids(relations) :
          /\ RecordOf(relations, id).name \notin DOMAIN call.arg
          /\ ~Survives(relations, id)
    /\ \E id \in Ids(relations) :
          /\ RecordOf(relations, id).name \notin DOMAIN call.arg
          /\ Survives(relations, id)

\* C11. Idempotence of user constraints: a second apply_user_matchspecs(M)
\* issued right after the first, with the same M, returns no logs and
\* leaves the removed bitmap (and the rest of the engine) as the first call
\* left it.
C11_UserMatchspecsIdempotent ==
    (ReturnedFrom("apply_user_matchspecs") /\ repeated) =>
        result = <<>> /\ relations = before

\* The second of two identical calls has returned, the first having removed
\* records of a name of M.
C11_Witness ==
    /\ ReturnedFrom("apply_user_matchspecs")
    /\ repeated
    /\ \E id \in NewlyRemoved(earlier, before) :
          RecordOf(before, id).name \in DOMAIN call.arg

\* The edges find_unresolveables(C) evaluates: keyed under a name of C and
\* not unsatisfiable when the call starts.
EvaluatedEdges(rel, names) ==
    {ns \in UNION {{<<n, s>> : s \in DOMAIN rel.package_dependencies[n]} :
                        n \in names \cap DOMAIN rel.package_dependencies} :
        ~rel.package_dependencies[ns[1]][ns[2]].unsatisfiable}

\* The cached resolution of the edge points at a provider that is alive.
CacheHit(rel, ns) ==
    /\ rel.package_dependencies[ns[1]][ns[2]].last_successful_resolution # <<>>
    /\ Survives(rel, Candidates(rel, ns[1])[1]
                     + rel.package_dependencies[ns[1]][ns[2]].last_successful_resolution[1])

\* C12. Cache hit rule: in find_unresolveables, an evaluated edge whose
\* last_successful_resolution is Some(offset) with the provider at
\* base + offset not removed gets no proposal from evaluate; when the call
\* returns the edge is as it was (unsatisfiable flag, cached resolution,
\* dependers) and no log names it.
C12_CacheHitRule ==
    ReturnedFrom("find_unresolveables") =>
        \A ns \in EvaluatedEdges(before, call.arg) :
            CacheHit(before, ns) =>
                /\ evaluate(before, [name |-> ns[1], matchspec |-> ns[2]],
                            before.package_dependencies[ns[1]][ns[2]]) = <<>>
                /\ relations.package_dependencies[ns[1]][ns[2]]
                        = before.package_dependencies[ns[1]][ns[2]]
                /\ \A k \in 1..Len(result) :
                      ~(/\ result[k].dependency_package_name = ns[1]
                        /\ result[k].matchspec
                              = before.package_dependencies[ns[1]][ns[2]].matchspec)

\* A call has returned that evaluated an edge with a live cached resolution
\* while another record of the same name was already removed, and the same
\* call removed dependers of another edge.
C12_Witness ==
    /\ ReturnedFrom("find_unresolveables")
    /\ result # <<>>
    /\ \E ns \in EvaluatedEdges(before, call.arg) :
          /\ CacheHit(before, ns)
          /\ \E id \in RangeIds(before, ns[1]) : ~Survives(before, id)

\* The ids of the records named name.
IdsNamed(rel, name) == {id \in Ids(rel) : RecordOf(rel, id).name = name}

\* C14. Range contiguity: the records arrive sorted by (name, version,
\* filename); after every insert each name N that has records has a stored
\* range holding exactly the ids of the records named N, and no name
\* without records has a range; a filtering pass leaves every range as it
\* found it.
C14_RangeContiguity ==
    /\ \A id \in Ids(relations) :
          RecordOf(relations, id).name \in DOMAIN relations.package_name_to_providers
    /\ \A name \in DOMAIN relations.package_name_to_providers :
          /\ IdsNamed(relations, name) # {}
          /\ RangeIds(relations, name) = IdsNamed(relations, name)
    /\ call.op # "new" =>
          relations.package_name_to_providers = before.package_name_to_providers

\* All records are inserted, a name whose range does not start at id 0
\* has more than one record, and a pass has removed a record of it.
C14_Witness ==
    /\ pc = "idle"
    /\ \E name \in DOMAIN relations.package_name_to_providers :
          /\ relations.package_name_to_providers[name][1] > 0
          /\ relations.package_name_to_providers[name][2] > 1
          /\ \E id \in NewlyRemoved(before, relations) :
                RecordOf(relations, id).name = name

\* C15. Density: in every state, after every insert and after every pass,
\* the removed bitmap has as many bits as there are package records; the
\* bit of a record is false as long as no pass has been called, so a newly
\* inserted record starts with its bit false.
C15_Density ==
    /\ Len(relations.removed) = Len(relations.package_metadatas)
    /\ call.op = "new" => \A id \in Ids(relations) : Survives(relations, id)

\* Records are inserted, and a pass has set some of their bits and left
\* others.
C15_Witness ==
    /\ pc = "idle"
    /\ NewlyRemoved(before, relations) # {}
    /\ \E id \in Ids(relations) : Survives(relations, id)
    /\ Len(relations.package_metadatas) > 1

\* The edges of the engine: (dependency name, constraint string).
Edges(rel) ==
    UNION {{<<n, s>> : s \in DOMAIN rel.package_dependencies[n]} :
                n \in DOMAIN rel.package_dependencies}

\* The logs of the last call that name the edge.
LogsNaming(rel, ns) ==
    {k \in 1..Len(result) :
        /\ result[k].kind = "RemovedUnsatisfiable"
        /\ result[k].dependency_package_name = ns[1]
        /\ result[k].matchspec = rel.package_dependencies[ns[1]][ns[2]].matchspec}

\* C16. Edge latching: whatever pass is called, in whatever order, an edge
\* whose unsatisfiable flag is true keeps it true in the next state; and a
\* find_unresolveables call does not evaluate an edge that was
\* unsatisfiable when it was called: the edge is as it was and no log of the
\* call names it.
C16_EdgeLatching ==
    /\ [][\A ns \in Edges(relations) :
            relations.package_dependencies[ns[1]][ns[2]].unsatisfiable =>
                /\ ns \in Edges(relations')
                /\ relations'.package_dependencies[ns[1]][ns[2]].unsatisfiable]_vars
    /\ [](ReturnedFrom("find_unresolveables") =>
            \A ns \in Edges(before) :
                (/\ ns[1] \in call.arg
                 /\ before.package_dependencies[ns[1]][ns[2]].unsatisfiable) =>
                    /\ relations.package_dependencies[ns[1]][ns[2]]
                            = before.package_dependencies[ns[1]][ns[2]]
                    /\ LogsNaming(before, ns) = {})

\* find_unresolveables has returned from a call whose candidate names key
\* an edge that was unsatisfiable already, with dependers, and another edge
\* that this call made unsatisfiable.
C16_Witness ==
    /\ ReturnedFrom("find_unresolveables")
    /\ \E ns \in Edges(before) :
          /\ ns[1] \in call.arg
          /\ before.package_dependencies[ns[1]][ns[2]].unsatisfiable
          /\ before.package_dependencies[ns[1]][ns[2]].dependers # <<>>
    /\ \E ns \in Edges(before) :
          /\ ~before.package_dependencies[ns[1]][ns[2]].unsatisfiable
          /\ relations.package_dependencies[ns[1]][ns[2]].unsatisfiable

\* The records a log identifies: those with its filename.
Logged(rel, log) == {id \in Ids(rel) : FilenameOf(rel, id) = log.filename}

\* C17. Logs imply removal: the filenames of the inserted records being
\* unique, when a filtering pass returns every log of its result identifies
\* a record, and that record's removed bit is set.
C17_LogsImplyRemoval ==
    (pc = "idle" /\ call.op # "new") =>
        \A k \in 1..Len(result) :
            /\ Logged(relations, result[k]) # {}
            /\ \A id \in Logged(relations, result[k]) : ~Survives(relations, id)

\* The filenames of the inserted records are unique.
C17_UniqueFilenames ==
    \A i \in Ids(relations), j \in Ids(relations) :
        FilenameOf(relations, i) = FilenameOf(relations, j) => i = j

\* A pass has returned two logs or more, one of them for a record it found
\* surviving.
C17_Witness ==
    /\ pc = "idle"
    /\ C17_UniqueFilenames
    /\ Len(result) > 1
    /\ \E k \in 1..Len(result) :
          \E id \in Logged(relations, result[k]) : Survives(before, id)

\* The record carries a feature of the set, as its features tag or as an
\* entry of track_features.
HasFeatureIn(package_record, features) ==
    \/ package_record.features # <<>> /\ package_record.features[1] \in features
    \/ \E k \in 1..Len(package_record.track_features) :
          package_record.track_features[k] \in features

\* C18. Feature-ban result: after apply_feature_removal(F) with F not empty
\* a record's removed bit is true iff it was true already or the record's
\* features tag is in F or an entry of its track_features is in F; with F
\* empty the pass returns no logs and changes nothing.
C18_FeatureBanResult ==
    ReturnedFrom("apply_feature_removal") =>
        IF call.arg = {}
        THEN result = <<>> /\ relations = before
        ELSE \A id \in Ids(before) :
                ~Survives(relations, id) <=>
                    \/ ~Survives(before, id)
                    \/ HasFeatureIn(RecordOf(before, id), call.arg)

\* The pass has removed a record for an entry of track_features that is not
\* the first one and a record for its features tag, has kept a record, and
\* found another one removed already.
C18_Witness ==
    /\ ReturnedFrom("apply_feature_removal")
    /\ call.arg # {}
    /\ \E id \in NewlyRemoved(before, relations) :
          /\ RecordOf(before, id).features = <<>>
          /\ RecordOf(before, id).track_features[1] \notin call.arg
    /\ \E id \in NewlyRemoved(before, relations) : RecordOf(before, id).features # <<>>
    /\ \E id \in Ids(relations) : Survives(relations, id)
    /\ \E id \in Ids(before) :
          ~Survives(before, id) /\ ~HasFeatureIn(RecordOf(before, id), call.arg)

\* The pass has returned from a call with the empty set, made when records
\* with features were inserted and some record was removed.
C18_WitnessEmpty ==
    /\ ReturnedFrom("apply_feature_removal")
    /\ call.arg = {}
    /\ \E id \in Ids(before) : HasFeatureIn(RecordOf(before, id), {"pypy"})
    /\ \E id \in Ids(before) : ~Survives(before, id)

\* The table as the claim gives it, by the text before the first '-'.
C19_Table(os) ==
    CASE os = "linux" -> {"__osx", "__win"}
      [] os = "osx" -> {"__linux", "__win", "__glibc"}
      [] os = "freebsd" -> {"__linux", "__win", "__glibc"}
      [] os = "win" -> {"__linux", "__unix", "__glibc", "__osx"}
      [] OTHER -> {}

\* The text of an architecture tag before its first '-', read off the tags
\* the pass is called with.
C19_OsOf(architecture) ==
    CASE architecture \in {"linux-64", "linux"} -> "linux"
      [] architecture = "win-64" -> "win"
      [] architecture = "osx-arm64" -> "osx"
      [] architecture = "freebsd-64" -> "freebsd"
      [] architecture = "zos-z" -> "zos"

\* The dependers of the edges keyed under one of the names.
DependersUnder(rel, names) ==
    UNION {{rel.package_dependencies[ns[1]][ns[2]].dependers[k] :
                k \in 1..Len(rel.package_dependencies[ns[1]][ns[2]].dependers)} :
            ns \in {e \in Edges(rel) : e[1] \in names}}

\* C19. Banned-virtual table: the banned virtual names of an architecture
\* tag are those of the text before its first '-': linux {__osx, __win};
\* osx and freebsd {__linux, __win, __glibc}; win {__linux, __unix, __glibc,
\* __osx}; any other token none.  apply_incompatible_architecture removes
\* the dependers of the edges keyed under these names and marks these
\* edges, and no others; for another token it returns no logs and changes
\* nothing.
C19_BannedVirtualTable ==
    ReturnedFrom("apply_incompatible_architecture") =>
        /\ {get_virtual_package_bans(call.arg)[k] :
                k \in 1..Len(get_virtual_package_bans(call.arg))}
              = C19_Table(C19_OsOf(call.arg))
        /\ NewlyRemoved(before, relations)
              = {id \in DependersUnder(before, C19_Table(C19_OsOf(call.arg))) :
                    Survives(before, id)}
        /\ \A ns \in Edges(before) :
              relations.package_dependencies[ns[1]][ns[2]].unsatisfiable <=>
                  \/ before.package_dependencies[ns[1]][ns[2]].unsatisfiable
                  \/ ns[1] \in C19_Table(C19_OsOf(call.arg))
        /\ {result[k].virtual_package : k \in 1..Len(result)}
              \subseteq C19_Table(C19_OsOf(call.arg))
        /\ C19_Table(C19_OsOf(call.arg)) = {} => result = <<>> /\ relations = before

\* The pass has returned for a freebsd tag and removed the dependers of
\* __linux and __glibc.
C19_Witness ==
    /\ ReturnedFrom("apply_incompatible_architecture")
    /\ call.arg = "freebsd-64"
    /\ \E k \in 1..Len(result) : result[k].virtual_package = "__glibc"
    /\ \E k \in 1..Len(result) : result[k].virtual_package = "__linux"
    /\ NewlyRemoved(before, relations) # {}

\* The pass has returned for a tag whose token is not in the table, called
\* when edges keyed under virtual names existed.
C19_WitnessOther ==
    /\ ReturnedFrom("apply_incompatible_architecture")
    /\ call.arg = "zos-z"
    /\ "__linux" \in DOMAIN before.package_dependencies

\* Some constraint string of the user-constraints file is not one the
\* parser accepts.
Malformed(yaml) ==
    \E n \in DOMAIN yaml : \E k \in 1..Len(yaml[n]) : yaml[n][k] \notin DOMAIN MatchSpecTable

\* C20. Malformed user constraint aborts early: if a constraint string of
\* the user-constraints file fails to parse, the run never gets past its
\* start other than by aborting, and no index file is fetched, no pass is
\* run and no repodata.json is written.
C20_MalformedAbortsEarly ==
    Malformed(args.matchspecs_yaml) =>
        /\ pc \in {"start", "panicked"}
        /\ ~fetched
        /\ relations = new
        /\ passes_run = <<>>
        /\ outputs = <<>>

\* The run has aborted on a file whose other values parse.
C20_Witness ==
    /\ pc = "panicked"
    /\ Malformed(args.matchspecs_yaml)
    /\ \E n \in DOMAIN args.matchspecs_yaml :
          \E k \in 1..Len(args.matchspecs_yaml[n]) :
              ParsesAsMatchSpec(args.matchspecs_yaml[n][k])

\* C13. Intern identity under concurrency: however the get_or_insert calls
\* of the callers interleave, two calls with equal keys that both returned
\* Ok returned the same reference; the arena holds one entry per key of
\* the lookup map, and none for a key that does not parse; and every
\* reference returned so far still points into the arena at the value its
\* key parses to, whatever was inserted since.
C13_InternIdentity ==
    /\ \A p \in returned, q \in returned : p.key = q.key => p.ref = q.ref
    /\ Len(matchspec_cache.arena) = Cardinality(DOMAIN matchspec_cache.lookup)
    /\ \A k \in DOMAIN matchspec_cache.lookup, m \in DOMAIN matchspec_cache.lookup :
          matchspec_cache.lookup[k] = matchspec_cache.lookup[m] => k = m
    /\ \A k \in DOMAIN matchspec_cache.lookup : ParsesAsMatchSpec(k)
    /\ \A p \in returned :
          /\ p.ref \in 1..Len(matchspec_cache.arena)
          /\ matchspec_cache.lookup[p.key] = p.ref
          /\ matchspec_cache.arena[p.ref] = from_str(p.key)

\* Two callers have got a reference for the first key inserted, a second
\* key was inserted since, and a caller that missed the first key on the
\* read path is waiting for the write lock while it is in the map already.
C13_Witness ==
    /\ \E p \in returned, q \in returned :
          p.key = q.key /\ p.caller # q.caller /\ p.ref = 1
    /\ Len(matchspec_cache.arena) = 2
    /\ \E t \in 1..Callers :
          /\ callers[t].pc = "write"
          /\ callers[t].key \in DOMAIN matchspec_cache.lookup

\* C21. Out-of-order insertion is detected: when insert is called with a
\* record whose name already has a range that is no longer the most recent
\* one, the run aborts; so as long as the run goes on, no name's range
\* covers a record of another name.
C21_OutOfOrderDetected ==
    pc # "panicked" =>
        \A name \in DOMAIN relations.package_name_to_providers :
            \A id \in RangeIds(relations, name) \cap Ids(relations) :
                RecordOf(relations, id).name = name

\* The edges the last call latched: unsatisfiable now, not when it started.
Latched(from, to) ==
    {ns \in Edges(from) :
        /\ ~from.package_dependencies[ns[1]][ns[2]].unsatisfiable
        /\ to.package_dependencies[ns[1]][ns[2]].unsatisfiable}

\* C22. Tail-only search is sound: after any sequence of passes, when
\* find_unresolveables marks an edge unsatisfiable, no surviving record in
\* the whole range of the dependency name (the offsets before
\* last_successful_resolution included) matched the edge's constraint when
\* the call started; and every record the call removes is a depender of
\* such an edge.
C22_TailSearchSound ==
    ReturnedFrom("find_unresolveables") =>
        /\ \A ns \in Latched(before, relations) :
              \A id \in RangeIds(before, ns[1]) :
                  Survives(before, id) =>
                      ~matches(before.package_dependencies[ns[1]][ns[2]].matchspec,
                               RecordOf(before, id))
        /\ \A id \in NewlyRemoved(before, relations) :
              \E ns \in Latched(before, relations) \cap ClausesOf(before, id) :
                  Unresolved(before, ns[1], ns[2])

\* A call has latched an edge with dependers whose cached resolution was at
\* an offset above 0, so the search left out the head of the range, while a
\* record after the cached one matches the constraint.
C22_Witness ==
    /\ ReturnedFrom("find_unresolveables")
    /\ \E ns \in Latched(before, relations) :
          /\ before.package_dependencies[ns[1]][ns[2]].dependers # <<>>
          /\ before.package_dependencies[ns[1]][ns[2]].last_successful_resolution # <<>>
          /\ before.package_dependencies[ns[1]][ns[2]].last_successful_resolution[1] > 0
          /\ \E id \in RangeIds(before, ns[1]) :
                /\ id > Candidates(before, ns[1])[1]
                        + before.package_dependencies[ns[1]][ns[2]]
                                .last_successful_resolution[1]
                /\ matches(before.package_dependencies[ns[1]][ns[2]].matchspec,
                           RecordOf(before, id))

\* The clause (name, constraint string) has a surviving provider.
Provided(rel, ns) ==
    \E id \in IdsNamed(rel, ns[1]) :
        Survives(rel, id) /\ matches(from_str(ns[2]), RecordOf(rel, id))

\* The clauses of surviving records on a name that has lost a record.
ClausesOnRemoved(rel) ==
    UNION {{ns \in ClausesOf(rel, p) :
                \E id \in IdsNamed(rel, ns[1]) : ~Survives(rel, id)} :
           p \in {q \in Ids(rel) : Survives(rel, q)}}

\* When unresolveable() has returned, the clauses on names that have lost a
\* record are provided for.
LoopResult ==
    pc = "must_compatible" =>
        \A ns \in ClausesOnRemoved(relations) : Provided(relations, ns)

\* C23. Result of the driver's fixed-point loop: when unresolveable()
\* returns, every dependency clause (n, spec) of a surviving package such
\* that a record named n has been removed so far in the run has a surviving
\* record named n that matches spec; and the names of the records a round
\* removes are the names the next round examines.
C23_FixedPointResult ==
    /\ []LoopResult
    /\ [][(pc = "unresolveable" /\ pc' = "unresolveable") =>
            \A id \in NewlyRemoved(relations, relations') :
                RecordOf(relations, id).name \in this_round']_vars

\* The loop has returned after removing the dependers of an edge; a
\* surviving record depends on a name that has lost a record, and a removed
\* record does too.
C23_Witness ==
    /\ pc = "must_compatible"
    /\ ClausesOnRemoved(relations) # {}
    /\ \E ns \in Edges(relations) :
          /\ relations.package_dependencies[ns[1]][ns[2]].unsatisfiable
          /\ relations.package_dependencies[ns[1]][ns[2]].dependers # <<>>
          /\ \E id \in IdsNamed(relations, ns[1]) : ~Survives(relations, id)

\* C24. The fixed-point loop terminates: every round of unresolveable()
\* that returns a log latches an edge that was satisfiable before, the
\* number of rounds is at most the number of edges plus one, and the loop,
\* once entered, returns.
C24_LoopTerminates ==
    /\ [](round <= Cardinality(Edges(relations)) + 1)
    /\ [][(pc = "unresolveable" /\ round' = round + 1 /\ this_round' # {}) =>
            Latched(relations, relations') # {}]_vars
    /\ (pc = "unresolveable") ~> (pc = "must_compatible")

\* The loop is in its third round or later, the rounds before it having
\* latched edges.
C24_Witness ==
    /\ pc = "unresolveable"
    /\ round >= 2
    /\ this_round # {}
    /\ \E ns \in Edges(relations) :
          relations.package_dependencies[ns[1]][ns[2]].unsatisfiable

\* The sequence s in the order f, a permutation of its positions.
Reordered(s, f) == [k \in 1..Len(s) |-> s[f[k]]]

\* The proposal evaluate makes for the edge on the engine rel.
ProposalFor(rel, ns) ==
    evaluate(rel, [name |-> ns[1], matchspec |-> ns[2]],
             rel.package_dependencies[ns[1]][ns[2]])

\* The ids a call removes, given the engine it started from: the dependers
\* of the evaluated edges that evaluate proposes to give up.
ProposedRemovals(rel, names) ==
    UNION {{rel.package_dependencies[ns[1]][ns[2]].dependers[k] :
                k \in 1..Len(rel.package_dependencies[ns[1]][ns[2]].dependers)} :
           ns \in {e \in EvaluatedEdges(rel, names) :
                      /\ ProposalFor(rel, e) # <<>>
                      /\ ProposalFor(rel, e)[1].kind = "RemoveAndLog"}}

\* The edge after the call, given the proposal made for it.
EdgeAfter(dependency, proposal) ==
    IF proposal = <<>> THEN dependency
    ELSE IF proposal[1].kind = "UpdateSolution"
    THEN [dependency EXCEPT !.last_successful_resolution = proposal[1].offset]
    ELSE [dependency EXCEPT !.unsatisfiable = TRUE]

\* C25. Two-phase determinism: every proposal of find_unresolveables is the
\* one evaluate makes on the engine as the call found it; the removed
\* bitmap and the edges after the call are what these proposals say, and
\* are the same for every order of the candidate names and every order in
\* which the proposals are applied.
C25_TwoPhaseDeterminism ==
    ReturnedFrom("find_unresolveables") =>
        /\ \A id \in Ids(before) :
              ~Survives(relations, id) <=>
                  (~Survives(before, id) \/ id \in ProposedRemovals(before, call.arg))
        /\ \A ns \in Edges(before) :
              relations.package_dependencies[ns[1]][ns[2]] =
                  IF ns \in EvaluatedEdges(before, call.arg)
                  THEN EdgeAfter(before.package_dependencies[ns[1]][ns[2]],
                                 ProposalFor(before, ns))
                  ELSE before.package_dependencies[ns[1]][ns[2]]
        /\ \A f \in Permutations(1..Cardinality(call.arg)) :
              /\ find_unresolveables(before, Reordered(SetToSeq(call.arg), f)).relations
                    = relations
              /\ \A g \in Permutations(
                            1..Len(Updates(before, Reordered(SetToSeq(call.arg), f)))) :
                    ApplyUpdates(Untouched(before),
                                 Reordered(Updates(before,
                                                   Reordered(SetToSeq(call.arg), f)), g),
                                 1).relations = relations

\* A call with two candidate names has returned in which one proposal
\* removed a record that another edge evaluated in the same call had as
\* its provider.
C25_Witness ==
    /\ ReturnedFrom("find_unresolveables")
    /\ Cardinality(call.arg) >= 2
    /\ \E id \in NewlyRemoved(before, relations) :
          \E ns \in EvaluatedEdges(before, call.arg) :
              /\ ProposalFor(before, ns) # <<>>
              /\ ProposalFor(before, ns)[1].kind = "UpdateSolution"
              /\ id = Candidates(before, ns[1])[1] + ProposalFor(before, ns)[1].offset[1]

\* The clauses of the first surviving variant of the root on the name.
FirstVariantClauses(rel, root, name) ==
    {c \in ClausesOf(rel, Least(SurvivingVariants(rel, root))) : c[1] = name}

\* C26. Must-compatible filter postcondition: when apply_must_compatible(R)
\* returns, for every dependency name n common to the variants of R that
\* survived at call time, every surviving record named n matches at least
\* one constraint that one of those variants places on n, the clauses of
\* the first surviving variant counted, however many it has for n.
C26_MustCompatiblePostcondition ==
    ReturnedFrom("apply_must_compatible") =>
        \A name \in CommonNames(before, call.arg) :
        \A id \in IdsNamed(relations, name) :
            Survives(relations, id) =>
                \E d \in ConstraintsOn(before, call.arg, name) :
                    matches(d, RecordOf(relations, id))

\* The pass has returned for a root whose first surviving variant has two
\* clauses on a common name; it removed a record of that name and left one.
C26_Witness ==
    /\ ReturnedFrom("apply_must_compatible")
    /\ SurvivingVariants(before, call.arg) # {}
    /\ \E name \in CommonNames(before, call.arg) :
          /\ Cardinality(FirstVariantClauses(before, call.arg, name)) >= 2
          /\ \E id \in IdsNamed(relations, name) : id \in NewlyRemoved(before, relations)
          /\ \E id \in IdsNamed(relations, name) : Survives(relations, id)

\* The records of the edge's dependency name that are removed and match its
\* constraint.
RemovedMatching(rel, ns) ==
    {id \in RangeIds(rel, ns[1]) :
        /\ ~Survives(rel, id)
        /\ matches(rel.package_dependencies[ns[1]][ns[2]].matchspec, RecordOf(rel, id))}

\* The cause the claim names for a log of the edge, on the engine the call
\* started from.
CauseFor(rel, ns) ==
    IF rel.package_dependencies[ns[1]][ns[2]].last_successful_resolution # <<>>
    THEN <<FilenameOf(rel, Candidates(rel, ns[1])[1]
                + rel.package_dependencies[ns[1]][ns[2]].last_successful_resolution[1])>>
    ELSE IF RemovedMatching(rel, ns) # {}
    THEN <<FilenameOf(rel, Least(RemovedMatching(rel, ns)))>>
    ELSE <<>>

\* C27. Cause attribution: every RemovedUnsatisfiable log of a call belongs
\* to an edge the call latched; its cause_filename is the filename of the
\* provider at the edge's last_successful_resolution when that was set,
\* otherwise that of the lowest id of the range that is removed and matches,
\* otherwise absent; a cause that is present is the filename of a record of
\* the dependency name that is removed and matches the constraint.
C27_CauseAttribution ==
    ReturnedFrom("find_unresolveables") =>
        /\ \A k \in 1..Len(result) :
              /\ result[k].kind = "RemovedUnsatisfiable"
              /\ \E ns \in Latched(before, relations) : k \in LogsNaming(before, ns)
        /\ \A ns \in Latched(before, relations) :
           \A k \in LogsNaming(before, ns) :
              /\ result[k].cause_filename = CauseFor(before, ns)
              /\ result[k].cause_filename # <<>> =>
                    \E id \in RemovedMatching(before, ns) :
                        /\ RecordOf(before, id).name = ns[1]
                        /\ FilenameOf(before, id) = result[k].cause_filename[1]

\* A call has logged for an edge whose cached provider is not the lowest
\* removed record that matches.
C27_Witness ==
    /\ ReturnedFrom("find_unresolveables")
    /\ \E ns \in Latched(before, relations) :
          /\ LogsNaming(before, ns) # {}
          /\ before.package_dependencies[ns[1]][ns[2]].last_successful_resolution # <<>>
          /\ CauseFor(before, ns) # <<FilenameOf(before, Least(RemovedMatching(before, ns)))>>

\* A call has logged for an edge without a cached provider, naming the
\* lowest removed record that matches; another log of the call has no cause.
C27_WitnessSearched ==
    /\ ReturnedFrom("find_unresolveables")
    /\ \E ns \in Latched(before, relations) :
          /\ LogsNaming(before, ns) # {}
          /\ before.package_dependencies[ns[1]][ns[2]].last_successful_resolution = <<>>
          /\ RemovedMatching(before, ns) # {}
    /\ \E k \in 1..Len(result) : result[k].cause_filename = <<>>

\* The records of the record's group with a strictly greater build_number.
BetterBuilds(rel, id) ==
    {other \in GroupOf(rel, id) :
        RecordOf(rel, other).build_number > RecordOf(rel, id).build_number}

\* C28. Build-prune never removes the best build: apply_build_prune sets
\* the bit of a record only if its build matches the hash pattern and
\* another pattern-matching record with the same (name, version, stripped
\* build) has a strictly greater build_number; every other record (outside
\* the pattern, alone in its group, or at the group's maximum, tied or not)
\* keeps its bit, and every log of the pass names a record it removed for a
\* greater build_number of its group.
C28_BuildPruneSparesBest ==
    ReturnedFrom("apply_build_prune") =>
        /\ \A id \in Ids(before) :
              (~MatchesPattern(At(before.package_metadatas, id))
                    \/ BetterBuilds(before, id) = {}) =>
                  At(relations.removed, id) = At(before.removed, id)
        /\ \A k \in 1..Len(result) :
              \E id \in Ids(before) :
                  /\ FilenameOf(before, id) = result[k].filename
                  /\ MatchesPattern(At(before.package_metadatas, id))
                  /\ \E other \in BetterBuilds(before, id) :
                        RecordOf(before, other).build_number = result[k].build_number

\* The pass has removed a lower build of a group whose greatest build
\* number is carried by two records, both surviving, while a record outside
\* the pattern with the same name and version survives too.
C28_Witness ==
    /\ ReturnedFrom("apply_build_prune")
    /\ \E id \in NewlyRemoved(before, relations) :
       \E best \in BetterBuilds(before, id) :
       \E tied \in GroupOf(before, id) \ {best} :
          /\ BetterBuilds(before, best) = {}
          /\ RecordOf(before, tied).build_number = RecordOf(before, best).build_number
          /\ Survives(relations, best)
          /\ Survives(relations, tied)
    /\ \E id \in Ids(relations) :
          /\ ~MatchesPattern(At(relations.package_metadatas, id))
          /\ RecordOf(relations, id).name = "lib"
          /\ Survives(relations, id)

\* The ids in the edge's depender list.
DependersOf(rel, ns) ==
    {rel.package_dependencies[ns[1]][ns[2]].dependers[k] :
        k \in 1..Len(rel.package_dependencies[ns[1]][ns[2]].dependers)}

\* C29. Edge depender set: after every insert the edges are the (dependency
\* name, constraint string) pairs the clauses of the inserted records split
\* into, and the depender list of an edge holds exactly the ids of the
\* records with such a clause; no filtering pass changes a depender list.
C29_EdgeDependerSet ==
    /\ Edges(relations) = UNION {ClausesOf(relations, id) : id \in Ids(relations)}
    /\ \A ns \in Edges(relations) :
          DependersOf(relations, ns)
              = {id \in Ids(relations) : ns \in ClausesOf(relations, id)}
    /\ call.op # "new" =>
          /\ Edges(relations) = Edges(before)
          /\ \A ns \in Edges(before) :
                relations.package_dependencies[ns[1]][ns[2]].dependers
                    = before.package_dependencies[ns[1]][ns[2]].dependers

\* All records are inserted, an edge has two dependers, and a pass has
\* removed one of them.
C29_Witness ==
    /\ pc = "idle"
    /\ \E ns \in Edges(relations) :
          /\ Cardinality(DependersOf(relations, ns)) >= 2
          /\ \E id \in DependersOf(relations, ns) : id \in NewlyRemoved(before, relations)

\* The passes that only set bits.
BitOnlyPasses ==
    {"apply_user_matchspecs", "apply_build_prune", "apply_feature_removal",
     "apply_dev_rc_ban", "apply_must_compatible"}

\* C30. Frame of the passes: a filtering pass leaves the package table, the
\* name ranges, the filename index, the edge keys and the depender lists as
\* it found them and changes no bit's position; apply_user_matchspecs,
\* apply_build_prune, apply_feature_removal, apply_dev_rc_ban and
\* apply_must_compatible leave the edges as a whole (unsatisfiable flags and
\* cached resolutions included) as they found them.
C30_PassFrame ==
    call.op # "new" =>
        /\ relations.package_metadatas = before.package_metadatas
        /\ relations.package_name_to_providers = before.package_name_to_providers
        /\ relations.filename_to_metadata = before.filename_to_metadata
        /\ Len(relations.removed) = Len(before.removed)
        /\ Edges(relations) = Edges(before)
        /\ \A ns \in Edges(before) :
              /\ relations.package_dependencies[ns[1]][ns[2]].dependers
                    = before.package_dependencies[ns[1]][ns[2]].dependers
              /\ relations.package_dependencies[ns[1]][ns[2]].matchspec
                    = before.package_dependencies[ns[1]][ns[2]].matchspec
        /\ call.op \in BitOnlyPasses =>
              relations.package_dependencies = before.package_dependencies

\* One of the five passes has removed a record whose name keys an edge with
\* a cached resolution, while another edge is unsatisfiable.
C30_Witness ==
    /\ call.op \in BitOnlyPasses
    /\ pc = "idle"
    /\ \E id \in NewlyRemoved(before, relations) :
       \E ns \in Edges(before) :
          /\ ns[1] = RecordOf(before, id).name
          /\ before.package_dependencies[ns[1]][ns[2]].last_successful_resolution # <<>>
    /\ \E ns \in Edges(before) : before.package_dependencies[ns[1]][ns[2]].unsatisfiable

\* The passes whose repetition the engine promises to be a no-op.
RepeatablePasses ==
    {"apply_build_prune", "apply_feature_removal", "apply_dev_rc_ban",
     "apply_incompatible_architecture", "apply_must_compatible"}

\* C31. Re-running a pass is a no-op on state: when apply_build_prune,
\* apply_feature_removal, apply_dev_rc_ban, apply_incompatible_architecture
\* or apply_must_compatible has returned from a second call made right
\* after a first call with the same arguments, the removed bitmap and every
\* edge are as the first call left them.
C31_RerunIsNoOp ==
    (call.op \in RepeatablePasses /\ pc = "idle" /\ repeated) =>
        /\ relations.removed = before.removed
        /\ relations.package_dependencies = before.package_dependencies

\* The second of two identical apply_must_compatible calls has returned,
\* the first having removed records of two names, one of them in a nested
\* call.
C31_Witness ==
    /\ ReturnedFrom("apply_must_compatible")
    /\ repeated
    /\ \E id \in NewlyRemoved(earlier, before), other \in NewlyRemoved(earlier, before) :
          RecordOf(before, id).name # RecordOf(before, other).name

\* The second of two identical apply_incompatible_architecture calls has
\* returned, the first having removed a record and marked an edge.
C31_WitnessEdges ==
    /\ ReturnedFrom("apply_incompatible_architecture")
    /\ repeated
    /\ NewlyRemoved(earlier, before) # {}
    /\ \E ns \in Edges(before) :
          /\ before.package_dependencies[ns[1]][ns[2]].unsatisfiable
          /\ ~earlier.package_dependencies[ns[1]][ns[2]].unsatisfiable

\* The filenames whose removed bit is true.
RemovedFilenames(rel) == {FilenameOf(rel, id) : id \in {i \in Ids(rel) : ~Survives(rel, i)}}

\* The driver's positions after a pass of filter_repodata.
AfterAPass ==
    {"build_prune", "feature_removal", "dev_rc_ban", "call_unresolveable",
     "unresolveable", "must_compatible"}

\* The architecture filter_repodata has returned for last.
LastFiltered == args.architectures[Len(args.architectures) - Len(arch_todo)]

\* C32. The driver's removed set mirrors the bitmap: after every pass the
\* driver runs, the filenames it has collected from the logs are exactly the
\* filenames whose removed bit is true; what filter_repodata returns is that
\* set, and the architecture's output holds a record of its index file
\* exactly when the record's bit is false.
C32_RemovedSetMirrorsBitmap ==
    /\ pc \in AfterAPass => removed_filenames = RemovedFilenames(relations)
    /\ (pc = "main" /\ removed_by_arch # <<>>) =>
          /\ removed_by_arch[LastFiltered] = RemovedFilenames(relations)
          /\ \A id \in Ids(relations) :
                FilenameOf(relations, id) \in Filenames(Channels[args.channel].arches[LastFiltered]) =>
                    (FilenameOf(relations, id) \in outputs[LastFiltered]
                        <=> Survives(relations, id))

\* filter_repodata has returned, its last cascade having run two rounds; a
\* record of the architecture's index file is removed and another survives
\* and is in the output.
C32_Witness ==
    /\ pc = "main"
    /\ removed_by_arch # <<>>
    /\ round >= 2
    /\ \E id \in Ids(relations) :
          /\ ~Survives(relations, id)
          /\ FilenameOf(relations, id) \in Filenames(Channels[args.channel].arches[LastFiltered])
    /\ \E id \in Ids(relations) :
          /\ Survives(relations, id)
          /\ FilenameOf(relations, id) \in outputs[LastFiltered]

\* C33. Ingestion parse errors leave no partial output: when the run has
\* aborted in insert on a dependency clause that does not parse, no
\* filtered repodata.json has been written, not even for an architecture
\* that was processed before the one with the malformed clause.
C33_NoPartialOutput ==
    (pc = "panicked" /\ ~Malformed(args.matchspecs_yaml)) => outputs = <<>>

\* The offset an edge's last_successful_resolution holds.
ResolutionOf(rel, ns) == rel.package_dependencies[ns[1]][ns[2]].last_successful_resolution[1]

\* C34. Resolution-cache invariant: in every reachable state, the offset k
\* an edge has cached lies inside the range of the dependency name, the
\* record at offset k matches the edge's constraint, and every record of the
\* range at an offset below k is removed or does not match it.
C34_ResolutionCache ==
    \A ns \in Edges(relations) :
        relations.package_dependencies[ns[1]][ns[2]].last_successful_resolution # <<>> =>
            /\ ResolutionOf(relations, ns) < Candidates(relations, ns[1])[2]
            /\ matches(relations.package_dependencies[ns[1]][ns[2]].matchspec,
                       RecordOf(relations, Candidates(relations, ns[1])[1]
                                            + ResolutionOf(relations, ns)))
            /\ \A j \in 0..(ResolutionOf(relations, ns) - 1) :
                  \/ ~Survives(relations, Candidates(relations, ns[1])[1] + j)
                  \/ ~matches(relations.package_dependencies[ns[1]][ns[2]].matchspec,
                              RecordOf(relations, Candidates(relations, ns[1])[1] + j))

\* An edge's cached offset has moved past a removed record that matches its
\* constraint, and the record at the cached offset has been removed since.
C34_Witness ==
    \E ns \in Edges(relations) :
        /\ relations.package_dependencies[ns[1]][ns[2]].last_successful_resolution # <<>>
        /\ ~Survives(relations, Candidates(relations, ns[1])[1]
                                    + ResolutionOf(relations, ns))
        /\ \E j \in 0..(ResolutionOf(relations, ns) - 1) :
              matches(relations.package_dependencies[ns[1]][ns[2]].matchspec,
                      RecordOf(relations, Candidates(relations, ns[1])[1] + j))

\* The edges flagged unsatisfiable.
Unsatisfiable(rel) ==
    {ns \in Edges(rel) : rel.package_dependencies[ns[1]][ns[2]].unsatisfiable}

\* C35. Unsatisfiable implies dependers removed: in every state reachable by
\* any sequence of passes, every id in the depender list of an edge whose
\* unsatisfiable flag is true has its removed bit set, whichever of
\* apply_incompatible_architecture and find_unresolveables set the flag.
C35_UnsatisfiableDependersRemoved ==
    \A ns \in Unsatisfiable(relations) :
        \A id \in DependersOf(relations, ns) : ~Survives(relations, id)

\* The names some architecture bans.
BannedSomewhere ==
    UNION {{get_virtual_package_bans(a)[k] : k \in 1..Len(get_virtual_package_bans(a))} :
           a \in ArchitectureChoices}

\* apply_incompatible_architecture has flagged an edge with dependers, after
\* find_unresolveables had flagged an edge with dependers under a name no
\* architecture bans.
C35_Witness ==
    /\ ReturnedFrom("apply_incompatible_architecture")
    /\ \E ns \in Latched(before, relations) : DependersOf(relations, ns) # {}
    /\ \E ns \in Unsatisfiable(before) :
          /\ DependersOf(before, ns) # {}
          /\ ns[1] \notin BannedSomewhere

====
